---------------------------- MODULE Spec2Model ----------------------------
(***************************************************************************)
(* A model of the undo-lang bytecode VM: the linker (program.rs), the      *)
(* arena heap with its compactor and the interpreter loop (vm.rs).         *)
(*                                                                         *)
(* Pointers are 0-based indices as in the source (Ptr(usize)); TLA+        *)
(* sequences are 1-based, so heap cell p is gc[p + 1].                     *)
(***************************************************************************)
EXTENDS Integers, Sequences, FiniteSets, TLC

VARIABLES
    modules,     \* the raw modules handed to run / link (Vec<bc::Module>)
    linked,      \* linker harness: the results of the link runs made so far
    program,     \* run_main: program (Program.functions)
    context,     \* run_main: context (the linker's Context)
    gc,          \* run_main: gc, the arena GC(Vec<Value>)
    frames,      \* run_main: frames, VecDeque<Frame>, back = last element
    num_frames,  \* run_main: num_frames, the loop's iteration counter
    pc,          \* run_main: "head" (top of the while loop) | "dispatch" (at the match)
    status,      \* "running" | "done" | "panic" (panic!, a failed unwrap/expect, a stack overflow)
    stdout,      \* the lines println! has written
    passes,      \* history: number of compactions completed so far
    before,      \* history: the arena and frames the last compaction started from
    executed,    \* history: number of instructions the match has dispatched so far
    last         \* history: the arm the match took since the last loop head, and the state it took it in

vars == <<modules, linked, program, context, gc, frames, num_frames, pc, status,
          stdout, passes, before, executed, last>>

-----------------------------------------------------------------------------
(* Bounds of the model *)

MaxHeap == 3

MaxRoots == 2

MaxPasses == 2

-----------------------------------------------------------------------------
(* vm.rs: enum Value.  One record shape for all variants:                  *)
(*   num  - the i64 of IntVal, the index of ModuleFnRef / VariantVal /     *)
(*          LambdaVal / ThwartPtr                                          *)
(*   str  - the String of StrVal / Intrinsic                               *)
(*   ptrs - the Vec<Ptr> of VariantVal / LambdaVal                         *)

IntVal(i) == [tag |-> "IntVal", num |-> i, str |-> "", ptrs |-> <<>>]

StrVal(s) == [tag |-> "StrVal", num |-> 0, str |-> s, ptrs |-> <<>>]

ModuleFnRef(f) == [tag |-> "ModuleFnRef", num |-> f, str |-> "", ptrs |-> <<>>]

Intrinsic(name) == [tag |-> "Intrinsic", num |-> 0, str |-> name, ptrs |-> <<>>]

VariantVal(c, ps) == [tag |-> "VariantVal", num |-> c, str |-> "", ptrs |-> ps]

LambdaVal(f, ps) == [tag |-> "LambdaVal", num |-> f, str |-> "", ptrs |-> ps]

ThwartPtr(i) == [tag |-> "ThwartPtr", num |-> i, str |-> "", ptrs |-> <<>>]

\* Option<Ptr>::None in Frame.registers; Some(p) is p itself.
None == -1

\* vm.rs Frame::new
NewFrame(fn_idx) ==
    [fn_idx |-> fn_idx, ip |-> 0, locals |-> <<>>, registers |-> <<>>, stack |-> <<>>]

-----------------------------------------------------------------------------
(* vm.rs: impl GC *)

\* GC::raw_at is self.0.get(i).unwrap(): it panics unless i is in bounds.
InBounds(arena, i) == i >= 0 /\ i < Len(arena)

RawAt(arena, i) == arena[i + 1]

\* GC::set
Set(arena, i, v) == [arena EXCEPT ![i + 1] = v]

\* An alloc that inserts the value in front of the cells allocated so far.
AllocAtFront(arena, v) == [gc |-> <<v>> \o arena, ptr |-> 0]

\* GC::alloc: push, then Ptr(len - 1)
Alloc(arena, v) == [gc |-> Append(arena, v), ptr |-> Len(arena)]

-----------------------------------------------------------------------------
(* vm.rs: compact_hit.  The function mutates old, new_arena and *ptr; the  *)
(* operator returns the three after the call.  ok = FALSE stands for the   *)
(* process dying inside the call: raw_at's unwrap on an index out of       *)
(* range, or the recursion never returning (a cell that reaches itself     *)
(* through cells not yet forwarded overflows the call stack).  A chain of  *)
(* distinct cells is at most Len(old) long, so depth > Len(old) means the  *)
(* recursion is in such a loop.                                            *)

RECURSIVE CompactHit(_, _, _, _)
RECURSIVE CompactHitEach(_, _, _, _, _)

HitDied(old, new, p) == [old |-> old, new |-> new, ptr |-> p, ok |-> FALSE]

\* A cell found already forwarded: the only branch that rewrites *ptr.
HitThwart(old, new, p, v) == [old |-> old, new |-> new, ptr |-> v.num, ok |-> TRUE]

\* compact_hit with the push and the set exchanged: the cell pushed on the
\* new arena is read after the forward has overwritten it.
HitMoveAfterSet(old, new, p, v, ps) ==
    LET pushed == Append(new, RawAt(Set(old, p, ThwartPtr(Len(new))), p))
    IN  [old |-> Set(old, p, ThwartPtr(Len(pushed) - 1)),
         new |-> pushed, ptr |-> p, ok |-> TRUE]

\* A cell holding any other value than a ThwartPtr, its interior pointers
\* (ps, none for a scalar) already visited: the value is pushed on the new
\* arena and the old cell overwritten with the forward; *ptr is left alone.
HitMove(old, new, p, v, ps) ==
    LET pushed == Append(new, [v EXCEPT !.ptrs = ps])
    IN  [old |-> Set(old, p, ThwartPtr(Len(pushed) - 1)),
         new |-> pushed, ptr |-> p, ok |-> TRUE]

\* `for ptr in &mut ptrs { compact_hit(old, new_arena, ptr) }` from index i on.
CompactHitEach(old, new, ps, i, depth) ==
    IF i > Len(ps)
    THEN [old |-> old, new |-> new, ptrs |-> ps, ok |-> TRUE]
    ELSE LET Rest(r) ==
                 IF ~r.ok
                 THEN [old |-> r.old, new |-> r.new, ptrs |-> ps, ok |-> FALSE]
                 ELSE CompactHitEach(r.old, r.new, [ps EXCEPT ![i] = r.ptr], i + 1, depth)
         IN  Rest(CompactHit(old, new, ps[i], depth))

CompactHit(old, new, p, depth) ==
    IF ~InBounds(old, p) \/ depth > Len(old)
    THEN HitDied(old, new, p)
    ELSE LET v == RawAt(old, p)
             Inner(r) == IF ~r.ok THEN HitDied(r.old, r.new, p)
                         ELSE HitMove(r.old, r.new, p, v, r.ptrs)
         IN  CASE v.tag = "ThwartPtr" -> HitThwart(old, new, p, v)
               [] v.tag \in {"VariantVal", "LambdaVal"} ->
                    Inner(CompactHitEach(old, new, v.ptrs, 1, depth + 1))
               [] OTHER -> HitMove(old, new, p, v, <<>>)

(* vm.rs: compact.  For every frame, front to back, the locals and then    *)
(* the operand stack are visited; the registers are not.                   *)

\* A compact that also drops the empty slots of the frame's registers.
CompactFrameTrimmingRegisters(old, new, f) ==
    LET Both(l, s) ==
            IF ~l.ok
            THEN [old |-> l.old, new |-> l.new, frame |-> f, ok |-> FALSE]
            ELSE [old |-> s.old, new |-> s.new,
                  frame |-> [f EXCEPT !.locals = l.ptrs, !.stack = s.ptrs,
                                      !.registers = SelectSeq(@, LAMBDA r : r # None)],
                  ok |-> s.ok]
        Stack(l) == Both(l, CompactHitEach(l.old, l.new, f.stack, 1, 0))
    IN  Stack(CompactHitEach(old, new, f.locals, 1, 0))

CompactFrame(old, new, f) ==
    LET Both(l, s) ==
            IF ~l.ok
            THEN [old |-> l.old, new |-> l.new, frame |-> f, ok |-> FALSE]
            ELSE [old |-> s.old, new |-> s.new,
                  frame |-> [f EXCEPT !.locals = l.ptrs, !.stack = s.ptrs],
                  ok |-> s.ok]
        Stack(l) == Both(l, CompactHitEach(l.old, l.new, f.stack, 1, 0))
    IN  Stack(CompactHitEach(old, new, f.locals, 1, 0))

RECURSIVE CompactFrames(_, _, _, _)
CompactFrames(old, new, fs, i) ==
    IF i > Len(fs)
    THEN [old |-> old, new |-> new, frames |-> fs, ok |-> TRUE]
    ELSE LET Rest(r) ==
                 IF ~r.ok
                 THEN [old |-> r.old, new |-> r.new, frames |-> fs, ok |-> FALSE]
                 ELSE CompactFrames(r.old, r.new, [fs EXCEPT ![i] = r.frame], i + 1)
         IN  Rest(CompactFrame(old, new, fs[i]))

\* old is returned for the history variable only: the source drops it.
Compact(old, fs) ==
    LET Out(r) == [gc |-> r.new, frames |-> r.frames, old |-> r.old, ok |-> r.ok]
    IN  Out(CompactFrames(old, <<>>, fs, 1))

\* The history before any compaction has run.
NoSnapshot == [gc |-> <<>>, frames |-> <<>>, old |-> <<>>]

\* `gc = compact(gc, &mut frames)` as a step: the arena and the frames are
\* replaced, or the process dies inside compact.
Compaction ==
    LET Replace(r) ==
            /\ before' = [gc |-> gc, frames |-> frames, old |-> r.old]
            /\ IF r.ok
               THEN /\ gc' = r.gc
                    /\ frames' = r.frames
                    /\ passes' = passes + 1
                    /\ status' = status
               ELSE /\ status' = "panic"
                    /\ UNCHANGED <<gc, frames, passes>>
    IN  Replace(Compact(gc, frames))

-----------------------------------------------------------------------------
(* bc.rs: the raw module model *)

\* bc.rs enum RawInstruction, one record shape for all variants:
\*   n      - the integer of PushInt / PushString / LoadLocal / StoreLocal /
\*            LoadReg / StoreReg / Unless / Jump / Call
\*   module - the ModuleName of LoadName / Instantiate / IsVariant / Field
\*   s1..s3 - the strings that follow, in order
RawInstr(op, n, module, s1, s2, s3) ==
    [op |-> op, n |-> n, module |-> module, s1 |-> s1, s2 |-> s2, s3 |-> s3]

RawInt(op, n) == RawInstr(op, n, <<>>, "", "", "")

RawLoadName(module, fun) == RawInstr("LoadName", 0, module, fun, "", "")

RawLoadGlobal(fun) == RawInstr("LoadGlobal", 0, <<>>, fun, "", "")

RawInstantiate(module, datatype, ctor) ==
    RawInstr("Instantiate", 0, module, datatype, ctor, "")

RawIsVariant(module, datatype, ctor) ==
    RawInstr("IsVariant", 0, module, datatype, ctor, "")

RawField(module, datatype, ctor, field) ==
    RawInstr("Field", 0, module, datatype, ctor, field)

\* bc.rs struct ADTVariant
ADTVariant(name, elements) == [name |-> name, elements |-> elements]

\* bc.rs struct ExpectedADT
ExpectedADT(module, name, variants) ==
    [module |-> module, name |-> name, variants |-> variants]

\* bc.rs struct Module, with the strings table link reads (module.strings).
\* functions and adts are HashMaps: functions from their keys.
Module(name, strings, functions, dependencies, adts, expected_adts) ==
    [name |-> name, strings |-> strings, functions |-> functions,
     dependencies |-> dependencies, adts |-> adts, expected_adts |-> expected_adts]

\* A HashMap with no entry.
EmptyMap == [k \in {} |-> <<>>]

-----------------------------------------------------------------------------
(* program.rs: enum Instruction, one record shape for all variants:        *)
(*   a - the first operand (i64, usize or index), b - the second (the      *)
(*   usize of StringTableIndex, the field offset of Field), s - the name   *)
(*   of LoadIntrinsic                                                      *)

Instr(op, a, b, s) == [op |-> op, a |-> a, b |-> b, s |-> s]

-----------------------------------------------------------------------------
(* Helpers for Vec / iterator calls *)

Range(seq) == { seq[i] : i \in DOMAIN seq }

Min(S) == CHOOSE x \in S : \A y \in S : x <= y

\* Iterator::position over the indices a predicate selected (S is a set of
\* 1-based positions): Some(0-based index of the first), or None.
Position(S) == IF S = {} THEN None ELSE Min(S) - 1

RECURSIVE Concat(_)
Concat(seqs) == IF seqs = <<>> THEN <<>> ELSE Head(seqs) \o Concat(Tail(seqs))

\* String's Ord (byte-wise lexicographic) on the strings the model compares:
\* the function names and the field names, listed in increasing order.
LexOrder == <<"MAIN", "f", "fst", "g", "inc", "snd", "tail">>

LexRank(s) == CHOOSE i \in DOMAIN LexOrder : LexOrder[i] = s

StrLe(a, b) == LexRank(a) <= LexRank(b)

\* <[String]>::is_sorted
IsSorted(seq) == \A i \in 1 .. Len(seq) - 1 : StrLe(seq[i], seq[i + 1])

\* slice::sort on a Vec of distinct strings, given as the set of its items.
RECURSIVE SortStrings(_)
SortStrings(S) ==
    IF S = {} THEN <<>>
    ELSE LET least == CHOOSE x \in S : \A y \in S : StrLe(x, y)
         IN  <<least>> \o SortStrings(S \ {least})

-----------------------------------------------------------------------------
(* program.rs: impl Context *)

\* Context::module_called
ModuleCalled(ctx, name) ==
    Position({ i \in DOMAIN ctx.module_names : ctx.module_names[i] = name })

\* Context::module_fn_called
ModuleFnCalled(ctx, module, name) ==
    Position({ i \in DOMAIN ctx.function_names :
                 ctx.function_modules[i] = module /\ ctx.function_names[i] = name })

\* Context::module_datatype
ModuleDatatype(ctx, module, datatype) ==
    Position({ i \in DOMAIN ctx.datatype_names :
                 ctx.datatype_modules[i] = module /\ ctx.datatype_names[i] = datatype })

\* Context::ctor_field
CtorField(ctx, ctor, field) ==
    Position({ i \in DOMAIN ctx.constructor_fields[ctor + 1] :
                 ctx.constructor_fields[ctor + 1][i] = field })

\* Context::ctor_fields_nbr
CtorFieldsNbr(ctx, ctor) == Len(ctx.constructor_fields[ctor + 1])

\* Context::ctor_called: each `?` returns None early.
CtorCalled(ctx, module, datatype, ctor) ==
    LET module_idx == ModuleCalled(ctx, module)
        datatype_idx == ModuleDatatype(ctx, module_idx, datatype)
    IN  IF module_idx = None THEN None
        ELSE IF datatype_idx = None THEN None
        ELSE Position({ i \in DOMAIN ctx.constructor_names :
                          /\ ctx.constructor_datatypes[i] = datatype_idx
                          /\ ctx.constructor_names[i] = ctor })

\* Context::string
String(ctx, m, i) == ctx.strings[m + 1][i + 1]

-----------------------------------------------------------------------------
(* program.rs: check_modules *)

\* TRUE when check_modules returns, FALSE when it panics.
CheckModules(ms) ==
    LET all_dependencies == UNION { Range(ms[i].dependencies) : i \in DOMAIN ms }
        provided_modules == { ms[i].name : i \in DOMAIN ms }
        missing == all_dependencies \ provided_modules
    IN  missing = {}

(* program.rs: check_provided_adts *)

VariantNames(variants) == { variants[i].name : i \in DOMAIN variants }

\* `.iter().find(|t| t.name == name)`: the first variant of that name.
FindVariant(variants, name) ==
    variants[Min({ i \in DOMAIN variants : variants[i].name = name })]

\* check_provided_adts without the comparison of the elements: the variant
\* names alone are compared.
CheckExpectedAdtNamesOnly(ms, expected_adt) ==
    LET found == { i \in DOMAIN ms : ms[i].name = expected_adt.module }
    IN  /\ found # {}
        /\ LET target_module == ms[Min(found)]
           IN  /\ expected_adt.name \in DOMAIN target_module.adts
               /\ VariantNames(expected_adt.variants)
                     = VariantNames(target_module.adts[expected_adt.name])

\* One expected ADT of one module: TRUE when the loop body completes.
CheckExpectedAdt(ms, expected_adt) ==
    LET found == { i \in DOMAIN ms : ms[i].name = expected_adt.module }
    IN  /\ found # {}
        /\ LET target_module == ms[Min(found)]
           IN  /\ expected_adt.name \in DOMAIN target_module.adts
               /\ LET target_adt == target_module.adts[expected_adt.name]
                  IN  /\ VariantNames(expected_adt.variants) = VariantNames(target_adt)
                      /\ \A k \in DOMAIN expected_adt.variants :
                            LET expected_variant == expected_adt.variants[k]
                                adt_variant == FindVariant(target_adt, expected_variant.name)
                            IN  /\ IsSorted(expected_variant.elements)
                                /\ adt_variant.elements = expected_variant.elements

\* TRUE when check_provided_adts returns, FALSE when it panics.
CheckProvidedAdts(ms) ==
    \A i \in DOMAIN ms :
        \A k \in DOMAIN ms[i].expected_adts :
            CheckExpectedAdt(ms, ms[i].expected_adts[k])

-----------------------------------------------------------------------------
(* program.rs: compile *)

\* program.rs is_intrinsic
IsIntrinsic(n) == n = "print" \/ n = "+" \/ n = "=="

Resolved(instr) == [ok |-> TRUE, instr |-> instr]

\* A failed `.expect(...)` or a panic! inside compile.
Unresolved == [ok |-> FALSE, instr |-> Instr("", 0, 0, "")]

\* Option<index> to the instruction that carries it, or the failed expect.
Expect(idx, op, b) == IF idx = None THEN Unresolved ELSE Resolved(Instr(op, idx, b, ""))

\* The closure compile maps over the raw instructions.
CompileInstr(cur_module_idx, instr, ctx) ==
    CASE instr.op = "PushInt" -> Resolved(Instr("PushInt", instr.n, 0, ""))
      [] instr.op = "PushString" ->
            Resolved(Instr("PushString", cur_module_idx, instr.n, ""))
      [] instr.op \in {"LoadLocal", "StoreLocal", "LoadReg", "StoreReg",
                       "Unless", "Jump", "Call"} ->
            Resolved(Instr(instr.op, instr.n, 0, ""))
      [] instr.op = "LoadName" ->
            IF Len(instr.module) = 1 /\ instr.module[1] = "Prelude"
            THEN IF ~IsIntrinsic(instr.s1) THEN Unresolved
                 ELSE Resolved(Instr("LoadIntrinsic", 0, 0, instr.s1))
            ELSE Expect(Position({ i \in DOMAIN ctx.function_names :
                                     /\ instr.module = ctx.function_module_names[i]
                                     /\ instr.s1 = ctx.function_names[i] }),
                        "LoadName", 0)
      [] instr.op = "LoadGlobal" ->
            Expect(Position({ i \in DOMAIN ctx.function_names :
                                /\ cur_module_idx = ctx.function_modules[i]
                                /\ instr.s1 = ctx.function_names[i] }),
                   "LoadName", 0)
      [] instr.op = "Instantiate" ->
            Expect(CtorCalled(ctx, instr.module, instr.s1, instr.s2), "Instantiate", 0)
      [] instr.op = "IsVariant" ->
            Expect(CtorCalled(ctx, instr.module, instr.s1, instr.s2), "IsVariant", 0)
      [] instr.op = "Field" ->
            LET ctor_idx == CtorCalled(ctx, instr.module, instr.s1, instr.s2)
                ctor_field == CtorField(ctx, ctor_idx, instr.s3)
            IN  IF ctor_idx = None THEN Unresolved
                ELSE IF ctor_field = None THEN Unresolved
                ELSE Resolved(Instr("Field", ctor_idx, ctor_field, ""))

\* compile: ok is FALSE when some instruction's resolution panicked.
Compile(cur_module_idx, instrs, ctx) ==
    LET Collected(each) == [ok |-> \A k \in DOMAIN each : each[k].ok,
                            code |-> [k \in DOMAIN each |-> each[k].instr]]
    IN  Collected([k \in DOMAIN instrs |-> CompileInstr(cur_module_idx, instrs[k], ctx)])

-----------------------------------------------------------------------------
(* program.rs: link.  adt_iter[i] is the order in which module i's adts    *)
(* HashMap yields its keys (module.adts.iter()): std's HashMap is seeded    *)
(* per map, so the order is not a function of the map's contents.          *)

\* `fn_keys = module.functions.keys().collect(); fn_keys.sort()`
ContextFnKeys(module) == SortStrings(DOMAIN module.functions)

\* link without the sort_by_key: the functions in an order the map yields
\* them in, here the sorted order backwards.
ProgramFnKeysAsIterated(module) ==
    LET Backwards(keys) == [k \in DOMAIN keys |-> keys[Len(keys) + 1 - k]]
    IN  Backwards(SortStrings(DOMAIN module.functions))

\* `fns = m.functions.iter().collect(); fns.sort_by_key(|(f, _)| *f)`
ProgramFnKeys(module) == SortStrings(DOMAIN module.functions)

\* One entry per push of the function arrays.
FunctionEntries(ms) ==
    Concat([i \in DOMAIN ms |->
              LET fn_keys == ContextFnKeys(ms[i])
              IN  [k \in DOMAIN fn_keys |->
                     [module |-> i - 1, module_name |-> ms[i].name, name |-> fn_keys[k]]]])

\* One entry per push of the datatype arrays; its position is its DatatypeIndex.
DatatypeEntries(ms, adt_iter) ==
    Concat([i \in DOMAIN ms |->
              [k \in DOMAIN adt_iter[i] |->
                 [module |-> i - 1, module_name |-> ms[i].name, name |-> adt_iter[i][k],
                  ctors |-> ms[i].adts[adt_iter[i][k]]]]])

\* One entry per push of the constructor arrays.
ConstructorEntries(dts) ==
    Concat([d \in DOMAIN dts |->
              [c \in DOMAIN dts[d].ctors |->
                 [module |-> dts[d].module, module_name |-> dts[d].module_name,
                  datatype |-> d - 1, datatype_name |-> dts[d].name,
                  name |-> dts[d].ctors[c].name,
                  fields |-> dts[d].ctors[c].elements]]])

\* The Context link has built when its first loop ends.
ContextOf(ms, fns, dts, cts) ==
    [module_names |-> [i \in DOMAIN ms |-> ms[i].name],
     function_modules |-> [i \in DOMAIN fns |-> fns[i].module],
     function_module_names |-> [i \in DOMAIN fns |-> fns[i].module_name],
     function_names |-> [i \in DOMAIN fns |-> fns[i].name],
     datatype_modules |-> [i \in DOMAIN dts |-> dts[i].module],
     datatype_module_names |-> [i \in DOMAIN dts |-> dts[i].module_name],
     datatype_names |-> [i \in DOMAIN dts |-> dts[i].name],
     constructor_modules |-> [i \in DOMAIN cts |-> cts[i].module],
     constructor_module_names |-> [i \in DOMAIN cts |-> cts[i].module_name],
     constructor_datatypes |-> [i \in DOMAIN cts |-> cts[i].datatype],
     constructor_datatype_names |-> [i \in DOMAIN cts |-> cts[i].datatype_name],
     constructor_names |-> [i \in DOMAIN cts |-> cts[i].name],
     constructor_fields |-> [i \in DOMAIN cts |-> cts[i].fields],
     strings |-> [i \in DOMAIN ms |-> ms[i].strings]]

BuildContext(ms, adt_iter) ==
    LET WithDatatypes(dts) ==
            ContextOf(ms, FunctionEntries(ms), dts, ConstructorEntries(dts))
    IN  WithDatatypes(DatatypeEntries(ms, adt_iter))

\* `if !ctor.elements[..].is_sorted() { panic!(...) }` for every constructor.
CtorElementsSorted(ms) ==
    \A i \in DOMAIN ms : \A d \in DOMAIN ms[i].adts :
        \A c \in DOMAIN ms[i].adts[d] : IsSorted(ms[i].adts[d][c].elements)

\* `let functions = modules.iter().enumerate().flat_map(..).enumerate().map(compile)`
CompileAll(ms, ctx) ==
    Concat([i \in DOMAIN ms |->
              LET fns == ProgramFnKeys(ms[i])
              IN  [k \in DOMAIN fns |-> Compile(i - 1, ms[i].functions[fns[k]], ctx)]])

\* The assert_eq! lines that end link.
SanityChecks(functions, ctx) ==
    /\ Len(functions) = Len(ctx.function_modules)
    /\ Len(functions) = Len(ctx.function_module_names)
    /\ Len(functions) = Len(ctx.function_names)
    /\ Len(ctx.datatype_names) = Len(ctx.datatype_modules)
    /\ Len(ctx.datatype_names) = Len(ctx.datatype_module_names)
    /\ Len(ctx.constructor_names) = Len(ctx.constructor_fields)
    /\ Len(ctx.constructor_names) = Len(ctx.constructor_modules)
    /\ Len(ctx.constructor_names) = Len(ctx.constructor_module_names)
    /\ Len(ctx.constructor_names) = Len(ctx.constructor_datatypes)
    /\ Len(ctx.constructor_names) = Len(ctx.constructor_datatype_names)

EmptyContext ==
    [module_names |-> <<>>, function_modules |-> <<>>, function_module_names |-> <<>>,
     function_names |-> <<>>, datatype_modules |-> <<>>, datatype_module_names |-> <<>>,
     datatype_names |-> <<>>, constructor_modules |-> <<>>,
     constructor_module_names |-> <<>>, constructor_datatypes |-> <<>>,
     constructor_datatype_names |-> <<>>, constructor_names |-> <<>>,
     constructor_fields |-> <<>>, strings |-> <<>>]

\* link panicked: no Program and no Context are returned.
LinkPanic == [ok |-> FALSE, functions |-> <<>>, context |-> EmptyContext]

Link(ms, adt_iter) ==
    IF ~CheckModules(ms) THEN LinkPanic
    ELSE IF ~CheckProvidedAdts(ms) THEN LinkPanic
    ELSE IF ~CtorElementsSorted(ms) THEN LinkPanic
    ELSE LET Checked(ctx, compiled, functions) ==
                 IF \E f \in DOMAIN compiled : ~compiled[f].ok THEN LinkPanic
                 ELSE IF ~SanityChecks(functions, ctx) THEN LinkPanic
                 ELSE [ok |-> TRUE, functions |-> functions, context |-> ctx]
             Compiled(ctx, compiled) ==
                 Checked(ctx, compiled, [f \in DOMAIN compiled |-> compiled[f].code])
             WithContext(ctx) == Compiled(ctx, CompileAll(ms, ctx))
         IN  WithContext(BuildContext(ms, adt_iter))

\* The orders the adts maps of the modules can be iterated in.
KeyOrders(S) ==
    { p \in [1 .. Cardinality(S) -> S] : \A i, j \in DOMAIN p : p[i] = p[j] => i = j }

RECURSIVE AdtIterOrders(_)
AdtIterOrders(ms) ==
    IF ms = <<>> THEN { <<>> }
    ELSE { <<p>> \o rest : p \in KeyOrders(DOMAIN Head(ms).adts),
                           rest \in AdtIterOrders(Tail(ms)) }

-----------------------------------------------------------------------------
(* vm.rs: run_main.  One iteration of `while !frames.is_empty()` is two    *)
(* steps: LoopHead (the counter and the compaction it triggers) and the    *)
(* arm of `match fun.get(cur_frame.ip)` that the instruction selects.      *)

\* `if num_frames == 500`
CompactInterval == 500

\* frames.back_mut().unwrap()
CurFrame == frames[Len(frames)]

\* program.at(cur_frame.fn_idx)
CurFun == program[CurFrame.fn_idx + 1]

\* fun.get(cur_frame.ip): the instruction, or None past the end.
NoInstr == Instr("None", 0, 0, "")

Fetch == IF CurFrame.ip < Len(CurFun) THEN CurFun[CurFrame.ip + 1] ELSE NoInstr

\* No arm has been taken since the last loop head.
NoDispatch == [instr |-> NoInstr, frames |-> <<>>, gc |-> <<>>]

\* The variables no arm of the match writes; every arm but the None arm
\* has executed one more instruction.
LoopFixed ==
    /\ UNCHANGED <<modules, linked, program, context, passes, before>>
    /\ executed' = IF Fetch = NoInstr THEN executed ELSE executed + 1
    /\ last' = [instr |-> Fetch, frames |-> frames, gc |-> gc]

Dispatching(op) ==
    /\ status = "running"
    /\ pc = "dispatch"
    /\ Fetch.op = op

\* panic!, a failed unwrap / expect, an index out of range: the process ends.
Panics ==
    /\ status' = "panic"
    /\ UNCHANGED <<gc, frames, num_frames, pc, stdout>>

\* The arm completes with arena g and frame stack fs; the loop goes round.
Continues(g, fs) ==
    /\ gc' = g
    /\ frames' = fs
    /\ pc' = "head"
    /\ UNCHANGED <<num_frames, status, stdout>>

\* The frame stack with the current frame replaced.
WithCur(f) == [frames EXCEPT ![Len(frames)] = f]

\* Vec::pop on a non-empty stack: the rest and the popped item.
Top(stack) == stack[Len(stack)]

Pop(stack) == SubSeq(stack, 1, Len(stack) - 1)

\* The last n items of a stack in pop order (the top first).
RECURSIVE Popped(_, _)
Popped(stack, n) ==
    IF n = 0 THEN <<>> ELSE <<Top(stack)>> \o Popped(Pop(stack), n - 1)

\* The stack after n pops.
Drop(stack, n) == SubSeq(stack, 1, Len(stack) - n)

\* Vec::reverse
Reverse(seq) == [i \in DOMAIN seq |-> seq[Len(seq) + 1 - i]]

\* cur_frame.stack.push(gc.alloc(v)); cur_frame.ip += 1
PushAlloc(v) ==
    LET a == Alloc(gc, v)
    IN  Continues(a.gc, WithCur([CurFrame EXCEPT !.stack = Append(@, a.ptr),
                                                 !.ip = @ + 1]))

\* The top of the loop: the condition, the counter, the compaction.
LoopHead ==
    /\ status = "running"
    /\ pc = "head"
    /\ frames # <<>>
    /\ pc' = "dispatch"
    /\ IF num_frames + 1 = CompactInterval
       THEN /\ num_frames' = 0
            /\ Compaction
       ELSE /\ num_frames' = num_frames + 1
            /\ UNCHANGED <<gc, frames, status, passes, before>>
    /\ last' = NoDispatch
    /\ UNCHANGED <<modules, linked, program, context, stdout, executed>>

\* The loop condition fails: eprintln!("Program done!") and run_main returns.
ProgramDone ==
    /\ status = "running"
    /\ pc = "head"
    /\ frames = <<>>
    /\ status' = "done"
    /\ UNCHANGED <<modules, linked, program, context, gc, frames, num_frames, pc,
                   stdout, passes, before, executed, last>>

PushInt ==
    /\ Dispatching("PushInt")
    /\ PushAlloc(IntVal(Fetch.a))
    /\ LoopFixed

\* context.string(*n) indexes strings[m][i]: out of range panics.
PushString ==
    /\ Dispatching("PushString")
    /\ IF Fetch.b < Len(context.strings[Fetch.a + 1])
       THEN PushAlloc(StrVal(String(context, Fetch.a, Fetch.b)))
       ELSE Panics
    /\ LoopFixed

\* LoadLocal skipping a local that was not written.
LoadLocalSkippingUnwritten ==
    /\ Dispatching("LoadLocal")
    /\ IF Fetch.a < Len(CurFrame.locals)
       THEN Continues(gc, WithCur([CurFrame EXCEPT
                !.stack = Append(@, CurFrame.locals[Fetch.a + 1]), !.ip = @ + 1]))
       ELSE Continues(gc, WithCur([CurFrame EXCEPT !.ip = @ + 1]))
    /\ LoopFixed

LoadLocal ==
    /\ Dispatching("LoadLocal")
    /\ IF Fetch.a < Len(CurFrame.locals)
       THEN Continues(gc, WithCur([CurFrame EXCEPT
                !.stack = Append(@, CurFrame.locals[Fetch.a + 1]), !.ip = @ + 1]))
       ELSE Panics
    /\ LoopFixed

\* StoreLocal growing the locals to reach an index past their end.
StoreLocalResizing ==
    /\ Dispatching("StoreLocal")
    /\ IF CurFrame.stack = <<>> THEN Panics
       ELSE LET ptr == Top(CurFrame.stack)
                idx == Fetch.a
                grown == [j \in 1 .. idx + 1 |->
                            IF j <= Len(CurFrame.locals) THEN CurFrame.locals[j] ELSE None]
            IN  IF Len(CurFrame.locals) > idx
                THEN Continues(gc, WithCur([CurFrame EXCEPT
                        !.stack = Pop(@), !.locals[idx + 1] = ptr, !.ip = @ + 1]))
                ELSE Continues(gc, WithCur([CurFrame EXCEPT
                        !.stack = Pop(@), !.locals = [grown EXCEPT ![idx + 1] = ptr],
                        !.ip = @ + 1]))
    /\ LoopFixed

StoreLocal ==
    /\ Dispatching("StoreLocal")
    /\ IF CurFrame.stack = <<>> THEN Panics
       ELSE LET ptr == Top(CurFrame.stack)
                idx == Fetch.a
            IN  IF Len(CurFrame.locals) > idx
                THEN Continues(gc, WithCur([CurFrame EXCEPT
                        !.stack = Pop(@), !.locals[idx + 1] = ptr, !.ip = @ + 1]))
                ELSE IF Len(CurFrame.locals) = idx
                THEN Continues(gc, WithCur([CurFrame EXCEPT
                        !.stack = Pop(@), !.locals = Append(@, ptr), !.ip = @ + 1]))
                ELSE Panics
    /\ LoopFixed

LoadReg ==
    /\ Dispatching("LoadReg")
    /\ IF Fetch.a < Len(CurFrame.registers) /\ CurFrame.registers[Fetch.a + 1] # None
       THEN Continues(gc, WithCur([CurFrame EXCEPT
                !.stack = Append(@, CurFrame.registers[Fetch.a + 1]), !.ip = @ + 1]))
       ELSE Panics
    /\ LoopFixed

\* Vec::resize(idx + 1, None) when the register file is too short.
Resized(registers, idx) ==
    IF Len(registers) <= idx
    THEN registers \o [i \in 1 .. (idx + 1 - Len(registers)) |-> None]
    ELSE registers

StoreReg ==
    /\ Dispatching("StoreReg")
    /\ IF CurFrame.stack = <<>> THEN Panics
       ELSE Continues(gc, WithCur([CurFrame EXCEPT
                !.stack = Pop(@),
                !.registers = [Resized(@, Fetch.a) EXCEPT ![Fetch.a + 1] = Top(CurFrame.stack)],
                !.ip = @ + 1]))
    /\ LoopFixed

LoadName ==
    /\ Dispatching("LoadName")
    /\ PushAlloc(ModuleFnRef(Fetch.a))
    /\ LoopFixed

LoadIntrinsic ==
    /\ Dispatching("LoadIntrinsic")
    /\ PushAlloc(Intrinsic(Fetch.s))
    /\ LoopFixed

Jump ==
    /\ Dispatching("Jump")
    /\ Continues(gc, WithCur([CurFrame EXCEPT !.ip = Fetch.a]))
    /\ LoopFixed

\* Unless with every value that is not a non-zero IntVal taking the branch.
UnlessBranchingOnNonInt ==
    /\ Dispatching("Unless")
    /\ IF CurFrame.stack = <<>> \/ ~InBounds(gc, Top(CurFrame.stack)) THEN Panics
       ELSE LET value == RawAt(gc, Top(CurFrame.stack))
            IN  IF value.tag # "IntVal" \/ value.num = 0
                THEN Continues(gc, WithCur([CurFrame EXCEPT !.stack = Pop(@), !.ip = Fetch.a]))
                ELSE Continues(gc, WithCur([CurFrame EXCEPT !.stack = Pop(@), !.ip = @ + 1]))
    /\ LoopFixed

\* Only IntVal(0) takes the branch; gc.at panics on a pointer out of range.
Unless ==
    /\ Dispatching("Unless")
    /\ IF CurFrame.stack = <<>> \/ ~InBounds(gc, Top(CurFrame.stack)) THEN Panics
       ELSE LET value == RawAt(gc, Top(CurFrame.stack))
            IN  IF value.tag = "IntVal" /\ value.num = 0
                THEN Continues(gc, WithCur([CurFrame EXCEPT !.stack = Pop(@), !.ip = Fetch.a]))
                ELSE Continues(gc, WithCur([CurFrame EXCEPT !.stack = Pop(@), !.ip = @ + 1]))
    /\ LoopFixed

-----------------------------------------------------------------------------
(* vm.rs: the intrinsics of Call *)

\* impl Display for Value
Display(v) ==
    CASE v.tag = "IntVal" -> ToString(v.num)
      [] v.tag = "StrVal" -> v.str
      [] v.tag = "ThwartPtr" -> "Thwart ptr"
      [] OTHER -> "TODO Value"

\* "print": `for _ in 1..=arg_num { println!("{}", gc.at(stack.pop().unwrap())) }`.
\* lines are the lines written before the loop ended or a pop / gc.at panicked.
RECURSIVE PrintRun(_, _, _)
PrintRun(arena, stack, n) ==
    IF n = 0 THEN [ok |-> TRUE, stack |-> stack, lines |-> <<>>]
    ELSE IF stack = <<>> \/ ~InBounds(arena, Top(stack))
    THEN [ok |-> FALSE, stack |-> stack, lines |-> <<>>]
    ELSE LET r == PrintRun(arena, Pop(stack), n - 1)
         IN  [r EXCEPT !.lines = <<Display(RawAt(arena, Top(stack)))>> \o @]

\* i64 `/` rounds toward zero.
TruncDiv(a, b) ==
    IF (a >= 0) = (b > 0) THEN (IF a >= 0 THEN a ELSE -a) \div (IF b > 0 THEN b ELSE -b)
    ELSE -((IF a >= 0 THEN a ELSE -a) \div (IF b > 0 THEN b ELSE -b))

ArithmeticOps == {"+", "-", "/", "*"}

BooleanOps == {">", "<", "==", ">=", "<=", "!="}

\* `result $op val` of define_arithmetic_operator.
ApplyArith(op, result, val) ==
    CASE op = "+" -> result + val
      [] op = "-" -> result - val
      [] op = "*" -> result * val
      [] op = "/" -> TruncDiv(result, val)

\* `(fst $op snd) as i64` of define_boolean_operator.
ApplyBool(op, fst, snd) ==
    LET holds == CASE op = ">" -> fst > snd
                   [] op = "<" -> fst < snd
                   [] op = "==" -> fst = snd
                   [] op = ">=" -> fst >= snd
                   [] op = "<=" -> fst <= snd
                   [] op = "!=" -> fst # snd
    IN  IF holds THEN 1 ELSE 0

\* `match gc.at(stack.pop().unwrap()) { IntVal(val) => .., _ => panic!() }`
PopsInt(arena, stack) ==
    /\ stack # <<>>
    /\ InBounds(arena, Top(stack))
    /\ RawAt(arena, Top(stack)).tag = "IntVal"

\* The while loop of define_arithmetic_operator from counter i on.
RECURSIVE ArithLoop(_, _, _, _, _, _)
ArithLoop(op, arena, stack, result, i, arg_num) ==
    IF ~(i < arg_num) THEN [ok |-> TRUE, stack |-> stack, result |-> result]
    ELSE IF ~PopsInt(arena, stack) THEN [ok |-> FALSE, stack |-> stack, result |-> result]
    ELSE LET val == RawAt(arena, Top(stack)).num
         IN  IF op = "/" /\ val = 0
             THEN [ok |-> FALSE, stack |-> stack, result |-> result]
             ELSE ArithLoop(op, arena, Pop(stack), ApplyArith(op, result, val), i + 1, arg_num)

\* define_arithmetic_operator taking its arg_num operands in the order
\* they were pushed.
ArithRunInPushOrder(op, arena, stack, arg_num) ==
    IF Len(stack) < arg_num \/ ~PopsInt(arena, stack)
    THEN [ok |-> FALSE, stack |-> stack, result |-> 0]
    ELSE LET turned == Drop(stack, arg_num) \o Reverse(SubSeq(stack, Len(stack) - arg_num + 1, Len(stack)))
         IN  ArithLoop(op, arena, Pop(turned), RawAt(arena, Top(turned)).num, 1, arg_num)

\* define_arithmetic_operator up to the push: the first pop is made whatever
\* arg_num is, then the loop runs from 1.
ArithRun(op, arena, stack, arg_num) ==
    IF ~PopsInt(arena, stack) THEN [ok |-> FALSE, stack |-> stack, result |-> 0]
    ELSE ArithLoop(op, arena, Pop(stack), RawAt(arena, Top(stack)).num, 1, arg_num)

\* define_boolean_operator up to the push.
BoolRun(op, arena, stack, arg_num) ==
    IF arg_num # 2 THEN [ok |-> FALSE, stack |-> stack, result |-> 0]
    ELSE IF ~PopsInt(arena, stack) THEN [ok |-> FALSE, stack |-> stack, result |-> 0]
    ELSE IF ~PopsInt(arena, Pop(stack)) THEN [ok |-> FALSE, stack |-> stack, result |-> 0]
    ELSE LET fst == RawAt(arena, Top(stack)).num
             snd == RawAt(arena, Top(Pop(stack))).num
         IN  [ok |-> TRUE, stack |-> Pop(Pop(stack)), result |-> ApplyBool(op, fst, snd)]

\* The Value::Intrinsic arm: stack is the operand stack after the callee's pop.
CallIntrinsic(name, stack, arg_num) ==
    CASE name = "print" ->
            LET r == PrintRun(gc, stack, arg_num)
            IN  /\ stdout' = stdout \o r.lines
                /\ IF r.ok
                   THEN /\ frames' = WithCur([CurFrame EXCEPT !.stack = r.stack, !.ip = @ + 1])
                        /\ pc' = "head"
                        /\ UNCHANGED <<gc, num_frames, status>>
                   ELSE /\ status' = "panic"
                        /\ UNCHANGED <<gc, frames, num_frames, pc>>
      [] name \in ArithmeticOps \cup BooleanOps ->
            LET r == IF name \in ArithmeticOps THEN ArithRun(name, gc, stack, arg_num)
                     ELSE BoolRun(name, gc, stack, arg_num)
                a == Alloc(gc, IntVal(r.result))
            IN  IF r.ok
                THEN Continues(a.gc, WithCur([CurFrame EXCEPT
                        !.stack = Append(r.stack, a.ptr), !.ip = @ + 1]))
                ELSE Panics
      [] OTHER -> Panics

\* The Value::ModuleFnRef arm without the reverse of the locals.
CallFunctionInPopOrder(fn_idx, stack, arg_num) ==
    IF Len(stack) < arg_num THEN Panics
    ELSE LET new_frame == [NewFrame(fn_idx) EXCEPT !.locals = Popped(stack, arg_num)]
         IN  Continues(gc, Append(WithCur([CurFrame EXCEPT
                                      !.stack = Drop(stack, arg_num), !.ip = @ + 1]),
                                  new_frame))

\* The Value::ModuleFnRef arm: the caller's ip moves on, the arguments are
\* popped into the new frame's locals and the locals reversed.
CallFunction(fn_idx, stack, arg_num) ==
    IF Len(stack) < arg_num THEN Panics
    ELSE LET new_frame == [NewFrame(fn_idx) EXCEPT !.locals = Reverse(Popped(stack, arg_num))]
         IN  Continues(gc, Append(WithCur([CurFrame EXCEPT
                                      !.stack = Drop(stack, arg_num), !.ip = @ + 1]),
                                  new_frame))

\* Call stepping over a callee that is not callable.
CallSkippingNonCallable ==
    /\ Dispatching("Call")
    /\ IF CurFrame.stack = <<>> \/ ~InBounds(gc, Top(CurFrame.stack)) THEN Panics
       ELSE LET value == RawAt(gc, Top(CurFrame.stack))
                stack == Pop(CurFrame.stack)
            IN  CASE value.tag = "Intrinsic" -> CallIntrinsic(value.str, stack, Fetch.a)
                  [] value.tag = "ModuleFnRef" -> CallFunction(value.num, stack, Fetch.a)
                  [] OTHER -> Continues(gc, WithCur([CurFrame EXCEPT
                                  !.stack = stack, !.ip = @ + 1]))
    /\ LoopFixed

Call ==
    /\ Dispatching("Call")
    /\ IF CurFrame.stack = <<>> \/ ~InBounds(gc, Top(CurFrame.stack)) THEN Panics
       ELSE LET value == RawAt(gc, Top(CurFrame.stack))
                stack == Pop(CurFrame.stack)
            IN  CASE value.tag = "Intrinsic" -> CallIntrinsic(value.str, stack, Fetch.a)
                  [] value.tag = "ModuleFnRef" -> CallFunction(value.num, stack, Fetch.a)
                  [] OTHER -> Panics
    /\ LoopFixed

-----------------------------------------------------------------------------
(* vm.rs: the ADT opcodes and the return *)

\* `iter::repeat(0).take(nbr).map(|_| stack.pop().unwrap()).rev().collect()`:
\* rev() reverses the iterator under the map, whose items are all 0, and the
\* closure runs once per item as the collect drives it, so the collected
\* Vec holds the pointers in the order they were popped: the top first.
Instantiate ==
    /\ Dispatching("Instantiate")
    /\ IF ~(Fetch.a < Len(context.constructor_fields)) THEN Panics
       ELSE LET nbr == CtorFieldsNbr(context, Fetch.a)
            IN  IF Len(CurFrame.stack) < nbr THEN Panics
                ELSE LET els == Popped(CurFrame.stack, nbr)
                         a == Alloc(gc, VariantVal(Fetch.a, els))
                     IN  Continues(a.gc, WithCur([CurFrame EXCEPT
                            !.stack = Append(Drop(@, nbr), a.ptr), !.ip = @ + 1]))
    /\ LoopFixed

\* IsVariant answering 0 for a value that is not a Variant.
IsVariantOfAnyValue ==
    /\ Dispatching("IsVariant")
    /\ IF CurFrame.stack = <<>> \/ ~InBounds(gc, Top(CurFrame.stack)) THEN Panics
       ELSE LET val == RawAt(gc, Top(CurFrame.stack))
                a == Alloc(gc, IntVal(IF val.tag = "VariantVal" /\ val.num = Fetch.a
                                      THEN 1 ELSE 0))
            IN  Continues(a.gc, WithCur([CurFrame EXCEPT
                        !.stack = Append(Pop(@), a.ptr), !.ip = @ + 1]))
    /\ LoopFixed

IsVariant ==
    /\ Dispatching("IsVariant")
    /\ IF CurFrame.stack = <<>> \/ ~InBounds(gc, Top(CurFrame.stack)) THEN Panics
       ELSE LET val == RawAt(gc, Top(CurFrame.stack))
                a == Alloc(gc, IntVal(IF val.num = Fetch.a THEN 1 ELSE 0))
            IN  IF val.tag = "VariantVal"
                THEN Continues(a.gc, WithCur([CurFrame EXCEPT
                        !.stack = Append(Pop(@), a.ptr), !.ip = @ + 1]))
                ELSE Panics
    /\ LoopFixed

Field ==
    /\ Dispatching("Field")
    /\ IF CurFrame.stack = <<>> \/ ~InBounds(gc, Top(CurFrame.stack)) THEN Panics
       ELSE LET val == RawAt(gc, Top(CurFrame.stack))
            IN  IF /\ val.tag = "VariantVal"
                   /\ val.num = Fetch.a
                   /\ Fetch.b < Len(val.ptrs)
                THEN Continues(gc, WithCur([CurFrame EXCEPT
                        !.stack = Append(Pop(@), val.ptrs[Fetch.b + 1]), !.ip = @ + 1]))
                ELSE Panics
    /\ LoopFixed

\* Vec::insert(0, o)
InsertFront(stack, o) == <<o>> \o stack

\* The None arm handing the caller every value the callee left.
ReturnMovingAll ==
    /\ Dispatching("None")
    /\ LET old_frame == CurFrame
           rest == Pop(frames)
       IN  IF rest = <<>>
           THEN IF old_frame.stack = <<>> THEN Continues(gc, rest) ELSE Panics
           ELSE Continues(gc, [rest EXCEPT ![Len(rest)].stack = old_frame.stack \o @])
    /\ LoopFixed

\* The None arm: the frame whose ip is past its function's end is popped.
Return ==
    /\ Dispatching("None")
    /\ LET old_frame == CurFrame
           rest == Pop(frames)
       IN  IF rest = <<>>
           THEN IF old_frame.stack = <<>> THEN Continues(gc, rest) ELSE Panics
           ELSE CASE Len(old_frame.stack) = 0 -> Continues(gc, rest)
                  [] Len(old_frame.stack) = 1 ->
                        Continues(gc, [rest EXCEPT ![Len(rest)].stack =
                                          InsertFront(@, old_frame.stack[1])])
                  [] OTHER -> Panics
    /\ LoopFixed

-----------------------------------------------------------------------------
(* vm.rs: run, and run_main up to its loop; main.rs hands run the name of  *)
(* the first module loaded.                                                *)

\* The state run_main starts its loop in, or the panic of link or of one of
\* the two expects that resolve the entrypoint.
RunStart(ms, adt_iter) ==
    LET Started(l, entrypoint_module, entrypoint_fn) ==
            IF l.ok /\ entrypoint_module # None /\ entrypoint_fn # None
            THEN [ok |-> TRUE, program |-> l.functions, context |-> l.context,
                  frames |-> <<NewFrame(entrypoint_fn)>>]
            ELSE [ok |-> FALSE, program |-> <<>>, context |-> EmptyContext, frames |-> <<>>]
        InModule(l, entrypoint_module) ==
            Started(l, entrypoint_module,
                    ModuleFnCalled(l.context, entrypoint_module, "MAIN"))
        Linked(l) == InModule(l, ModuleCalled(l.context, ms[1].name))
    IN  Linked(Link(ms, adt_iter))

Step ==
    \/ LoopHead
    \/ ProgramDone
    \/ PushInt
    \/ PushString
    \/ LoadLocal
    \/ StoreLocal
    \/ LoadReg
    \/ StoreReg
    \/ LoadName
    \/ LoadIntrinsic
    \/ Jump
    \/ Unless
    \/ Call
    \/ Instantiate
    \/ IsVariant
    \/ Field
    \/ Return

-----------------------------------------------------------------------------
(* The compactor on its own: compact is a function of the arena and the    *)
(* frames.  InitGC draws the two from the states run_main can be in when   *)
(* the counter reaches the compaction interval: every cell was allocated   *)
(* by PushInt or Instantiate (the fields of a VariantVal were on the       *)
(* operand stack when it was allocated, so they are lower indices), no     *)
(* cell is a ThwartPtr, and every local, register and operand-stack entry  *)
(* is an index of the arena.  The later passes run on what the earlier     *)
(* ones left.                                                              *)

\* The IntVal a drawn arena may hold in cell i: the payloads differ from
\* cell to cell, so that a pointer to the wrong cell shows in the value.
ScalarCells(i) == {IntVal(7 + i)}

\* Field counts (Context::ctor_fields_nbr) of the constructors the drawn
\* arenas use: constructor 0 is unary.
DrawnCtorFields == <<1>>

\* How many frames a drawn state has.
DrawnFrameCounts == {1, 2}

Ptrs(n) == 0 .. (n - 1)

CellsAt(i) ==
    ScalarCells(i) \cup
    UNION { { VariantVal(c - 1, ps) : ps \in [1 .. DrawnCtorFields[c] -> Ptrs(i)] }
            : c \in DOMAIN DrawnCtorFields }

RECURSIVE ArenasOfLen(_)
ArenasOfLen(n) ==
    IF n = 0 THEN { <<>> }
    ELSE { Append(h, v) : h \in ArenasOfLen(n - 1), v \in CellsAt(n - 1) }

DrawnArenas == UNION { ArenasOfLen(n) : n \in 0 .. MaxHeap }

\* How many locals, registers and stack entries each drawn frame has: at
\* most MaxRoots slots over all frames together.
RECURSIVE ShapesOf(_, _)
ShapesOf(nframes, budget) ==
    IF nframes = 0 THEN { <<>> }
    ELSE UNION { { <<[l |-> l, r |-> r, s |-> s]>> \o rest
                   : rest \in ShapesOf(nframes - 1, budget - (l + r + s)) }
                 : <<l, r, s>> \in { t \in (0 .. budget) \X (0 .. budget) \X (0 .. budget)
                                     : t[1] + t[2] + t[3] <= budget } }

DrawnShapes == UNION { ShapesOf(n, MaxRoots) : n \in DrawnFrameCounts }

FramesOfShape(sh, n) ==
    { [fn_idx |-> 0, ip |-> 0, locals |-> l, registers |-> r, stack |-> s]
      : l \in [1 .. sh.l -> Ptrs(n)],
        r \in [1 .. sh.r -> Ptrs(n) \cup {None}],
        s \in [1 .. sh.s -> Ptrs(n)] }

\* The frames of a drawn state are of different functions, each at an ip
\* of its own.
RECURSIVE FrameSeqsOf(_, _)
FrameSeqsOf(shape, n) ==
    IF shape = <<>> THEN { <<>> }
    ELSE { <<[f EXCEPT !.fn_idx = Len(shape) - 1, !.ip = Len(shape)]>> \o rest
           : f \in FramesOfShape(Head(shape), n),
             rest \in FrameSeqsOf(Tail(shape), n) }

InitGC ==
    /\ \E shape \in DrawnShapes : \E h \in DrawnArenas :
         /\ gc = h
         /\ frames \in FrameSeqsOf(shape, Len(h))
    /\ num_frames = 0
    /\ pc = "head"
    /\ status = "running"
    /\ passes = 0
    /\ before = NoSnapshot
    /\ modules = <<>>
    /\ linked = <<>>
    /\ program = <<>>
    /\ context = EmptyContext
    /\ stdout = <<>>
    /\ executed = 0
    /\ last = NoDispatch

\* One more call of compact on the state the last one left.
CompactPass ==
    /\ status = "running"
    /\ passes < MaxPasses
    /\ Compaction
    /\ UNCHANGED <<modules, linked, program, context, num_frames, pc, stdout,
                   executed, last>>

NextGC == CompactPass

SpecGC == InitGC /\ [][NextGC]_vars

-----------------------------------------------------------------------------
(* The interpreter on whole programs: run on the end-to-end scenarios of   *)
(* the specification and on programs that carry values across the         *)
(* compaction the counter triggers.                                        *)

MainName == <<"Main">>

AName == <<"A">>

BName == <<"B">>

PreludePrint == RawLoadName(<<"Prelude">>, "print")

PreludePlus == RawLoadName(<<"Prelude">>, "+")

\* n instructions that do nothing, the first at index from: Jump(next).
Nops(from, n) == [i \in 1 .. n |-> RawInt("Jump", from + i)]

\* A module with the one function MAIN.
MainOnly(strings, body, adts) ==
    Module(MainName, strings, [f \in {"MAIN"} |-> body], <<>>, adts, <<>>)

HelloWorld ==
    <<MainOnly(<<"hello">>, <<RawInt("PushString", 0), PreludePrint, RawInt("Call", 1)>>,
               EmptyMap)>>

ArithmeticFold ==
    <<MainOnly(<<>>, <<RawInt("PushInt", 1), RawInt("PushInt", 2), RawInt("PushInt", 3),
                      PreludePlus, RawInt("Call", 3), PreludePrint, RawInt("Call", 1)>>,
               EmptyMap)>>

Conditional(n) ==
    <<MainOnly(<<>>, <<RawInt("PushInt", n), RawInt("Unless", 4), RawInt("PushInt", 1),
                      RawInt("Jump", 5), RawInt("PushInt", 2), PreludePrint,
                      RawInt("Call", 1)>>,
               EmptyMap)>>

PairAdt == [d \in {"Pair"} |-> <<ADTVariant("Pair", <<"fst", "snd">>)>>]

ListAdt == [d \in {"List"} |-> <<ADTVariant("Nil", <<>>), ADTVariant("Cons", <<"tail">>)>>]

AdtRoundTrip ==
    <<MainOnly(<<>>,
               <<RawInt("PushInt", 7), RawInt("PushInt", 9),
                 RawInstantiate(MainName, "Pair", "Pair"), RawInt("StoreLocal", 0),
                 RawInt("LoadLocal", 0), RawField(MainName, "Pair", "Pair", "snd"),
                 PreludePrint, RawInt("Call", 1),
                 RawInt("LoadLocal", 0), RawField(MainName, "Pair", "Pair", "fst"),
                 PreludePrint, RawInt("Call", 1),
                 RawInt("LoadLocal", 0), RawIsVariant(MainName, "Pair", "Pair"),
                 PreludePrint, RawInt("Call", 1)>>,
               PairAdt)>>

IncBody ==
    <<RawInt("LoadLocal", 0), RawInt("PushInt", 1), PreludePlus, RawInt("Call", 2)>>

CrossModuleCall ==
    <<Module(AName, <<>>,
             [f \in {"MAIN"} |-> <<RawInt("PushInt", 41), RawLoadName(BName, "inc"),
                                   RawInt("Call", 1), PreludePrint, RawInt("Call", 1)>>],
             <<BName>>, EmptyMap, <<>>),
      Module(BName, <<>>, [f \in {"inc"} |-> IncBody], <<>>, EmptyMap, <<>>)>>

\* A value kept in register 0 only, loaded and printed by the instruction
\* the first compaction runs in front of (index CompactInterval - 1).
RegisterAcrossCompaction ==
    <<MainOnly(<<>>,
               <<RawInt("PushInt", 7), RawInt("StoreReg", 0)>>
                 \o Nops(2, CompactInterval - 3)
                 \o <<RawInt("LoadReg", 0), PreludePrint, RawInt("Call", 1)>>,
               EmptyMap)>>

\* A value kept in local 0, allocated after a cell that is garbage when the
\* first compaction runs.
LocalAcrossCompaction ==
    <<MainOnly(<<>>,
               <<RawInt("PushInt", 7), RawInt("PushInt", 9), RawInt("StoreLocal", 0),
                 RawInt("Unless", 4)>>
                 \o Nops(4, CompactInterval - 5)
                 \o <<RawInt("LoadLocal", 0), PreludePrint, RawInt("Call", 1)>>,
               EmptyMap)>>

\* Unless on the one value push leaves on the stack; the branch target and
\* the fall-through are different instructions.
UnlessOn(strings, push, adts) ==
    <<MainOnly(strings,
               push \o <<RawInt("Unless", Len(push) + 2), RawInt("Jump", Len(push) + 2)>>,
               adts)>>

\* Unless on a Str, an Intrinsic, a ModuleFnRef and a Variant.
UnlessOnNonInts ==
    { UnlessOn(<<"hello">>, <<RawInt("PushString", 0)>>, EmptyMap),
      UnlessOn(<<>>, <<PreludePrint>>, EmptyMap),
      UnlessOn(<<>>, <<RawLoadGlobal("MAIN")>>, EmptyMap),
      UnlessOn(<<>>, <<RawInstantiate(MainName, "List", "Nil")>>, ListAdt) }

\* One PushInt and one StoreLocal(k) for each k of ks, in order.
StoreLocals(ks) ==
    <<MainOnly(<<>>,
               [i \in 1 .. 2 * Len(ks) |->
                  IF i % 2 = 1 THEN RawInt("PushInt", 10 + (i + 1) \div 2)
                  ELSE RawInt("StoreLocal", ks[i \div 2])],
               EmptyMap)>>

\* MAIN calls f with a value of its own on the operand stack; f ends with
\* n values on its operand stack.
Returning(n) ==
    <<Module(MainName, <<>>,
             [f \in {"MAIN", "f"} |->
                IF f = "MAIN"
                THEN <<RawInt("PushInt", 5), RawLoadGlobal("f"), RawInt("Call", 0)>>
                ELSE [i \in 1 .. n |-> RawInt("PushInt", 20 + i)]],
             <<>>, EmptyMap, <<>>)>>

\* MAIN, with a value of its own on the operand stack, calls g on the
\* arguments 1 and 2; g prints its local 0.
TwoArgumentCall ==
    <<Module(MainName, <<>>,
             [f \in {"MAIN", "g"} |->
                IF f = "MAIN"
                THEN <<RawInt("PushInt", 5), RawInt("PushInt", 1), RawInt("PushInt", 2),
                       RawLoadGlobal("g"), RawInt("Call", 2), PreludePrint,
                       RawInt("Call", 1)>>
                ELSE <<RawInt("LoadLocal", 0), PreludePrint, RawInt("Call", 1)>>],
             <<>>, EmptyMap, <<>>)>>

\* A call of a function with no instruction, and its return, in front of
\* the first compaction.
ReturnBeforeCompaction ==
    <<Module(MainName, <<>>,
             [f \in {"MAIN", "f"} |->
                IF f = "MAIN"
                THEN <<RawLoadGlobal("f"), RawInt("Call", 0)>> \o Nops(2, CompactInterval)
                ELSE <<>>],
             <<>>, EmptyMap, <<>>)>>

\* IsVariant(ctor of List) on the one value push leaves on the stack, and
\* the result printed.
IsVariantOn(push, ctor) ==
    <<MainOnly(<<>>,
               push \o <<RawIsVariant(MainName, "List", ctor), PreludePrint,
                         RawInt("Call", 1)>>,
               ListAdt)>>

\* Programs that end in a runtime error: a load of a local or a register
\* that was not written, a Field on a value that is not a Variant or is one
\* of another constructor, and a pop from an operand stack with too few
\* entries by each arm that pops.
RuntimeErrors ==
    { MainOnly(<<>>, body, ListAdt) : body \in
        { <<RawInt("LoadLocal", 0)>>,
          <<RawInt("PushInt", 1), RawInt("StoreLocal", 0), RawInt("LoadLocal", 1)>>,
          <<RawInt("LoadReg", 0)>>,
          <<RawInt("PushInt", 1), RawInt("StoreReg", 1), RawInt("LoadReg", 0)>>,
          <<RawInt("PushInt", 1), RawField(MainName, "List", "Cons", "tail")>>,
          <<RawInstantiate(MainName, "List", "Nil"),
            RawField(MainName, "List", "Cons", "tail")>>,
          <<RawInt("StoreLocal", 0)>>,
          <<RawInt("StoreReg", 0)>>,
          <<RawInt("Unless", 0)>>,
          <<RawInt("Call", 0)>>,
          <<RawIsVariant(MainName, "List", "Nil")>>,
          <<RawField(MainName, "List", "Cons", "tail")>>,
          <<RawInstantiate(MainName, "List", "Cons")>>,
          <<PreludePrint, RawInt("Call", 1)>>,
          <<RawInt("PushInt", 1), PreludePlus, RawInt("Call", 2)>>,
          <<RawLoadGlobal("MAIN"), RawInt("Call", 1)>> } }

Scenarios ==
    { HelloWorld, ArithmeticFold, Conditional(0), Conditional(1), AdtRoundTrip,
      CrossModuleCall, RegisterAcrossCompaction, LocalAcrossCompaction }
    \cup UnlessOnNonInts
    \cup { StoreLocals(<<0, 1, 0>>), StoreLocals(<<0, 2>>), StoreLocals(<<1>>) }
    \cup { Returning(0), Returning(1), Returning(2), TwoArgumentCall,
           ReturnBeforeCompaction }
    \cup { IsVariantOn(<<RawInstantiate(MainName, "List", "Nil")>>, "Nil"),
           IsVariantOn(<<RawInstantiate(MainName, "List", "Nil")>>, "Cons"),
           IsVariantOn(<<RawInt("PushInt", 1)>>, "Cons") }
    \cup { <<m>> : m \in RuntimeErrors }

Init ==
    /\ modules \in Scenarios
    /\ \E adt_iter \in AdtIterOrders(modules) :
         LET Started(r) ==
                 /\ program = r.program
                 /\ context = r.context
                 /\ frames = r.frames
                 /\ status = IF r.ok THEN "running" ELSE "panic"
         IN  Started(RunStart(modules, adt_iter))
    /\ gc = <<>>
    /\ num_frames = 0
    /\ pc = "head"
    /\ stdout = <<>>
    /\ passes = 0
    /\ before = NoSnapshot
    /\ linked = <<>>
    /\ executed = 0
    /\ last = NoDispatch

Next == Step

Spec == Init /\ [][Next]_vars

-----------------------------------------------------------------------------
(* Vocabulary of the compaction claims *)

\* The root slots the specification names: every local, every non-empty
\* register and every operand-stack entry of every frame.
RootSlots(fs) ==
    UNION { { <<i, "locals", j>> : j \in DOMAIN fs[i].locals } \cup
            { <<i, "registers", j>> : j \in DOMAIN fs[i].registers } \cup
            { <<i, "stack", j>> : j \in DOMAIN fs[i].stack }
            : i \in DOMAIN fs }

SlotSeq(fs, sl) ==
    CASE sl[2] = "locals" -> fs[sl[1]].locals
      [] sl[2] = "registers" -> fs[sl[1]].registers
      [] sl[2] = "stack" -> fs[sl[1]].stack

\* The slots that hold a pointer.
LiveSlots(fs) == { sl \in RootSlots(fs) : SlotSeq(fs, sl)[sl[3]] # None }

SlotPtr(fs, sl) == SlotSeq(fs, sl)[sl[3]]

\* Structural equality of the value at p1 in arena h1 and the value at p2
\* in arena h2, interior pointers followed.  Two values that agree to a
\* depth of Len(h1) * Len(h2) agree at every depth.
RECURSIVE StructEq(_, _, _, _, _)
StructEq(h1, p1, h2, p2, fuel) ==
    IF fuel = 0 THEN TRUE
    ELSE /\ InBounds(h1, p1)
         /\ InBounds(h2, p2)
         /\ LET a == RawAt(h1, p1)
                b == RawAt(h2, p2)
            IN  /\ a.tag = b.tag
                /\ a.num = b.num
                /\ a.str = b.str
                /\ Len(a.ptrs) = Len(b.ptrs)
                /\ \A k \in DOMAIN a.ptrs :
                      StructEq(h1, a.ptrs[k], h2, b.ptrs[k], fuel - 1)

SameValue(h1, p1, h2, p2) == StructEq(h1, p1, h2, p2, Len(h1) * Len(h2) + 1)

\* The cells of arena h reachable from the pointers in S.
RECURSIVE ReachableFrom(_, _)
ReachableFrom(h, S) ==
    LET T == S \cup UNION { { RawAt(h, p).ptrs[k] : k \in DOMAIN RawAt(h, p).ptrs }
                            : p \in { q \in S : InBounds(h, q) } }
    IN  IF T = S THEN { q \in S : InBounds(h, q) } ELSE ReachableFrom(h, T)

LiveSet(h, fs) == ReachableFrom(h, { SlotPtr(fs, sl) : sl \in LiveSlots(fs) })

\* A compaction has run to its end and the program lives on.
Compacted == passes >= 1 /\ status = "running"

\* The forward the last compaction left in old cell o: the new index of the
\* cell's copy.
Forwarded(o) == RawAt(before.old, o).tag = "ThwartPtr"

ForwardOf(o) == RawAt(before.old, o).num

-----------------------------------------------------------------------------
(* C1: GC preserves reachability.  After a compaction, for every pointer   *)
(* a root held before it, the value it designated in the old arena and     *)
(* the value the same root slot designates in the new arena are            *)
(* structurally equal.                                                     *)
C1_RootsKeepTheirValues ==
    Compacted =>
        \A sl \in LiveSlots(before.frames) :
            SameValue(before.gc, SlotPtr(before.frames, sl), gc, SlotPtr(frames, sl))

(* C2: immediately after a compaction every pointer held in a local, a     *)
(* non-empty register or an operand stack is an index of the new arena.    *)
C2_RootsInBounds ==
    Compacted => \A sl \in LiveSlots(frames) : InBounds(gc, SlotPtr(frames, sl))

\* run_main is at the match of the iteration whose head ran a compaction.
AtCompaction == Compacted /\ pc = "dispatch" /\ num_frames = 0

\* The cells reachable from the locals and the operand stacks alone.
ReachableWithoutRegisters(h, fs) ==
    ReachableFrom(h, { SlotPtr(fs, sl) : sl \in { s \in LiveSlots(fs) : s[2] # "registers" } })

(* C3: registers are GC roots.  A value held, when a compaction runs, in a *)
(* register and reachable through no local and no operand stack is still   *)
(* in the arena afterwards, and the register (what LoadReg pushes) points  *)
(* to a value equal to the one stored.                                     *)
C3_RegistersSurviveCompaction ==
    AtCompaction =>
        \A sl \in LiveSlots(before.frames) :
            ( /\ sl[2] = "registers"
              /\ SlotPtr(before.frames, sl)
                    \notin ReachableWithoutRegisters(before.gc, before.frames) )
            => /\ sl \in LiveSlots(frames)
               /\ SameValue(before.gc, SlotPtr(before.frames, sl), gc, SlotPtr(frames, sl))

(* C4: after a compaction every field pointer of every VariantVal (every   *)
(* capture of every LambdaVal) in the new arena is the new index of the    *)
(* copy of the cell the field pointed to in the old arena.                 *)
C4_InteriorPointersRewritten ==
    Compacted =>
        \A o \in Ptrs(Len(before.gc)) :
            Forwarded(o) =>
                LET was == RawAt(before.gc, o)
                    now == RawAt(gc, ForwardOf(o))
                IN  \A k \in DOMAIN was.ptrs :
                        /\ InBounds(gc, now.ptrs[k])
                        /\ InBounds(before.old, was.ptrs[k])
                        /\ Forwarded(was.ptrs[k])
                        /\ now.ptrs[k] = ForwardOf(was.ptrs[k])

(* C5: after a compaction no ThwartPtr is stored in the live arena; the    *)
(* forwards exist only in the old arena, which is dropped.                 *)
C5_NoForwardInLiveHeap ==
    passes >= 1 => \A p \in Ptrs(Len(gc)) : RawAt(gc, p).tag # "ThwartPtr"

\* A compaction that moved at least two cells and left forwards behind in
\* the old arena, one of them met a second time (a root rewritten to it).
C5_Witness ==
    /\ Compacted
    /\ Len(gc) >= 2
    /\ \E o \in Ptrs(Len(before.old)) : Forwarded(o)
    /\ \E sl \in LiveSlots(frames) : sl[2] # "registers" /\
           SlotPtr(frames, sl) # SlotPtr(before.frames, sl)

(* C6: GC idempotence.  Two compactions in a row both complete without     *)
(* error and the second leaves an arena of the same size as the first.     *)
C6_SecondPassSameSize ==
    /\ status # "panic"
    /\ passes >= 2 => Len(gc) = Len(before.gc)

(* C7: immediately after a compaction the arena's length is the size of    *)
(* the live set: the number of cells reachable from the locals, the        *)
(* non-empty registers and the operand stacks of all frames.               *)
C7_HeapIsLiveSet ==
    Compacted => Len(gc) = Cardinality(LiveSet(before.gc, before.frames))

\* What a frame stack is apart from its pointer values: for every frame its
\* function, its ip, how many locals it has, which of its registers are
\* empty, and how deep its operand stack is.
ShapeOf(fs) ==
    [i \in DOMAIN fs |->
       [fn_idx |-> fs[i].fn_idx,
        ip |-> fs[i].ip,
        locals |-> Len(fs[i].locals),
        registers |-> [j \in DOMAIN fs[i].registers |-> fs[i].registers[j] = None],
        stack |-> Len(fs[i].stack)]]

\* A compaction has run and no arm of the match has been taken since.
JustCompacted == Compacted /\ num_frames = 0 /\ last.frames = <<>>

(* C28: compaction changes only pointer values.  A compaction leaves the   *)
(* number of frames and, for every frame, its fn_idx, its ip, the length   *)
(* of its locals, the length of its registers with which slots are empty,  *)
(* and the depth of its operand stack unchanged: it dispatches no          *)
(* instruction and pushes or pops no frame.                                *)
C28_CompactionKeepsFrameShapes ==
    JustCompacted =>
        /\ Len(frames) = Len(before.frames)
        /\ ShapeOf(frames) = ShapeOf(before.frames)

\* A compaction of two frames, one with an empty register slot, that left
\* an arena different from the one it found.
C28_Witness ==
    /\ JustCompacted
    /\ Len(frames) = 2
    /\ \E i \in DOMAIN frames : None \in Range(frames[i].registers)
    /\ gc # before.gc
    /\ ShapeOf(frames) = ShapeOf(before.frames)

-----------------------------------------------------------------------------
(* The linker on its own: link is a function of the module list and of the *)
(* order each adts map is iterated in.  InitLink draws the module list;    *)
(* every LinkRun links it once more and records what link returned.        *)

\* How many modules a drawn list has at most.
MaxModules == 2

\* How many times a drawn list is linked.
MaxLinks == 2

PairAndListAdts ==
    [d \in {"Pair", "List"} |->
       IF d = "Pair" THEN PairAdt["Pair"] ELSE ListAdt["List"]]

\* The adts a drawn provider defines: none, one datatype, two datatypes,
\* Pair with one field only, Pair with its fields out of order.
ProvidedAdtChoices ==
    { EmptyMap, PairAdt, PairAndListAdts,
      [d \in {"Pair"} |-> <<ADTVariant("Pair", <<"fst">>)>>],
      [d \in {"Pair"} |-> <<ADTVariant("Pair", <<"snd", "fst">>)>>] }

\* The expected_adts a drawn consumer declares: none, B's Pair as PairAdt
\* defines it, Pair with another field list, Pair with another variant
\* name, B's List, and the Pair of a module C that no list supplies.
ExpectedAdtChoices ==
    { <<>>,
      <<ExpectedADT(BName, "Pair", PairAdt["Pair"])>>,
      <<ExpectedADT(BName, "Pair", <<ADTVariant("Pair", <<"fst">>)>>)>>,
      <<ExpectedADT(BName, "Pair", <<ADTVariant("Cons", <<"fst", "snd">>)>>)>>,
      <<ExpectedADT(BName, "List", ListAdt["List"])>>,
      <<ExpectedADT(<<"C">>, "Pair", PairAdt["Pair"])>> }

\* Functions that refer to their own module only.
LocalFunctions ==
    [f \in {"MAIN", "f"} |->
       IF f = "MAIN" THEN <<RawLoadGlobal("f"), RawInt("Call", 0)>>
       ELSE <<RawInt("PushInt", 2)>>]

\* Functions that use B's Pair and B's inc.
PairFunctions ==
    [f \in {"MAIN", "f", "g"} |->
       CASE f = "MAIN" -> <<RawInt("PushInt", 7), RawInt("PushInt", 9),
                            RawInstantiate(BName, "Pair", "Pair"),
                            RawField(BName, "Pair", "Pair", "snd"),
                            RawLoadName(BName, "inc"), RawInt("Call", 1)>>
         [] f = "f" -> <<RawLoadGlobal("g"), RawInt("Call", 0)>>
         [] f = "g" -> <<RawInt("PushInt", 1)>>]

ProviderFunctions ==
    [f \in {"inc", "f"} |-> IF f = "inc" THEN IncBody ELSE <<RawInt("PushInt", 3)>>]

DrawnConsumers ==
    { Module(AName, <<>>, LocalFunctions, <<BName>>, EmptyMap, e) : e \in ExpectedAdtChoices }
    \cup
    { Module(AName, <<>>, PairFunctions, <<BName>>, EmptyMap, e)
      : e \in { <<>>, <<ExpectedADT(BName, "Pair", PairAdt["Pair"])>> } }

\* A module that lists the pseudo-module Prelude among its dependencies.
PreludeDependent ==
    Module(AName, <<>>, LocalFunctions, << <<"Prelude">> >>, EmptyMap, <<>>)

\* The names a drawn module asks Prelude for: the eleven callables the
\* interpreter's Call knows, and two it does not.
DrawnPreludeNames ==
    {"print", "+", "-", "*", "/", ">", "<", ">=", "<=", "==", "!=", "++", "inc"}

\* A module whose MAIN is the one instruction LoadName(Prelude, fun).
IntrinsicUser(fun) ==
    Module(AName, <<>>, [f \in {"MAIN"} |-> <<RawLoadName(<<"Prelude">>, fun)>>],
           <<>>, EmptyMap, <<>>)

DrawnProviders ==
    { Module(BName, <<>>, ProviderFunctions, <<>>, a, <<>>) : a \in ProvidedAdtChoices }

DrawnModules == DrawnConsumers \cup DrawnProviders \cup {PreludeDependent}

DrawnModuleLists ==
    UNION { [1 .. n -> DrawnModules] : n \in 1 .. MaxModules }
    \cup { <<IntrinsicUser(fun)>> : fun \in DrawnPreludeNames }

InitLink ==
    /\ modules \in DrawnModuleLists
    /\ linked = <<>>
    /\ program = <<>>
    /\ context = EmptyContext
    /\ gc = <<>>
    /\ frames = <<>>
    /\ num_frames = 0
    /\ pc = "head"
    /\ status = "running"
    /\ stdout = <<>>
    /\ passes = 0
    /\ before = NoSnapshot
    /\ executed = 0
    /\ last = NoDispatch

\* link(modules) once more; the adts maps yield their keys in some order.
LinkRun ==
    /\ Len(linked) < MaxLinks
    /\ \E adt_iter \in AdtIterOrders(modules) :
          linked' = Append(linked, Link(modules, adt_iter))
    /\ UNCHANGED <<modules, program, context, gc, frames, num_frames, pc, status,
                   stdout, passes, before, executed, last>>

NextLink == LinkRun

SpecLink == InitLink /\ [][NextLink]_vars

-----------------------------------------------------------------------------
(* Vocabulary of the linker claims *)

\* The indices (1-based positions) the Context gives function name of module m.
FunctionIndicesOf(ctx, m, name) ==
    { k \in DOMAIN ctx.function_names :
        ctx.function_modules[k] = m /\ ctx.function_names[k] = name }

DatatypeIndicesOf(ctx, m, name) ==
    { k \in DOMAIN ctx.datatype_names :
        ctx.datatype_modules[k] = m /\ ctx.datatype_names[k] = name }

ConstructorIndicesOf(ctx, m, datatype, variant) ==
    { k \in DOMAIN ctx.constructor_names :
        /\ ctx.constructor_modules[k] = m
        /\ ctx.constructor_datatype_names[k] = datatype
        /\ ctx.constructor_names[k] = variant.name
        /\ ctx.constructor_fields[k] = variant.elements }

\* Function k of the Program is the resolved body of the function whose
\* module and name the Context records at k.
FunctionAligned(ms, r, k) ==
    LET m == r.context.function_modules[k]
        name == r.context.function_names[k]
    IN  /\ m + 1 \in DOMAIN ms
        /\ name \in DOMAIN ms[m + 1].functions
        /\ r.context.function_module_names[k] = ms[m + 1].name
        /\ r.functions[k] = Compile(m, ms[m + 1].functions[name], r.context).code

\* Module by module in input order, by name within a module.
FunctionsInOrder(ctx) ==
    \A k \in 1 .. Len(ctx.function_names) - 1 :
        \/ ctx.function_modules[k] < ctx.function_modules[k + 1]
        \/ /\ ctx.function_modules[k] = ctx.function_modules[k + 1]
           /\ LexRank(ctx.function_names[k]) < LexRank(ctx.function_names[k + 1])

\* Constructor k belongs to the datatype its DatatypeIndex names.
ConstructorAligned(ctx, k) ==
    LET d == ctx.constructor_datatypes[k]
    IN  /\ d + 1 \in DOMAIN ctx.datatype_names
        /\ ctx.datatype_names[d + 1] = ctx.constructor_datatype_names[k]
        /\ ctx.datatype_modules[d + 1] = ctx.constructor_modules[k]
        /\ ctx.datatype_module_names[d + 1] = ctx.constructor_module_names[k]

\* Every function, datatype and constructor of the modules has one index.
EachIndexedOnce(ms, ctx) ==
    \A i \in DOMAIN ms :
        /\ \A name \in DOMAIN ms[i].functions :
              Cardinality(FunctionIndicesOf(ctx, i - 1, name)) = 1
        /\ \A d \in DOMAIN ms[i].adts :
              /\ Cardinality(DatatypeIndicesOf(ctx, i - 1, d)) = 1
              /\ \A c \in DOMAIN ms[i].adts[d] :
                    Cardinality(ConstructorIndicesOf(ctx, i - 1, d, ms[i].adts[d][c])) = 1

\* Every index is the index of a function, datatype or constructor of the
\* modules.
EachIndexUsed(ms, ctx) ==
    /\ \A k \in DOMAIN ctx.datatype_names :
          /\ ctx.datatype_modules[k] + 1 \in DOMAIN ms
          /\ ctx.datatype_names[k] \in DOMAIN ms[ctx.datatype_modules[k] + 1].adts
    /\ \A k \in DOMAIN ctx.constructor_names :
          /\ ctx.constructor_modules[k] + 1 \in DOMAIN ms
          /\ ctx.constructor_datatype_names[k]
                \in DOMAIN ms[ctx.constructor_modules[k] + 1].adts
          /\ \E c \in DOMAIN ms[ctx.constructor_modules[k] + 1].adts[ctx.constructor_datatype_names[k]] :
                k \in ConstructorIndicesOf(ctx, ctx.constructor_modules[k],
                         ctx.constructor_datatype_names[k],
                         ms[ctx.constructor_modules[k] + 1].adts[ctx.constructor_datatype_names[k]][c])

Aligned(ms, r) ==
    /\ SanityChecks(r.functions, r.context)
    /\ \A k \in DOMAIN r.functions : FunctionAligned(ms, r, k)
    /\ FunctionsInOrder(r.context)
    /\ \A k \in DOMAIN r.context.constructor_names : ConstructorAligned(r.context, k)
    /\ EachIndexedOnce(ms, r.context)
    /\ EachIndexUsed(ms, r.context)

\* Some supplied module of the name the declaration gives defines the
\* datatype with the same variant names and, variant by variant, the same
\* list of field names.
Agrees(ms, expected_adt) ==
    \E j \in DOMAIN ms :
        /\ ms[j].name = expected_adt.module
        /\ expected_adt.name \in DOMAIN ms[j].adts
        /\ VariantNames(ms[j].adts[expected_adt.name]) = VariantNames(expected_adt.variants)
        /\ \A a \in DOMAIN ms[j].adts[expected_adt.name] :
              \A b \in DOMAIN expected_adt.variants :
                  ms[j].adts[expected_adt.name][a].name = expected_adt.variants[b].name
                  => ms[j].adts[expected_adt.name][a].elements
                        = expected_adt.variants[b].elements

(* C8: linker determinism.  Linking the same list of raw modules twice     *)
(* yields the same Program and the same Context: every link run of one     *)
(* list returns what the first returned.                                   *)
C8_LinkIsDeterministic ==
    \A i \in DOMAIN linked : linked[i] = linked[1]

(* C9: index alignment.  After a link that returned, function index i of   *)
(* the Program is the resolved body of the function the Context records    *)
(* at i; function indices go module by module in input order and by name   *)
(* within a module; every function, datatype and constructor has exactly   *)
(* one index and every index is used.                                      *)
C9_IndicesAligned ==
    \A i \in DOMAIN linked : linked[i].ok => Aligned(modules, linked[i])

\* A link that returned for two modules with five functions between them,
\* out of name order across the modules, and three constructors.
C9_Witness ==
    /\ linked # <<>>
    /\ linked[1].ok
    /\ Len(modules) = 2
    /\ Len(linked[1].functions) = 5
    /\ Len(linked[1].context.constructor_names) = 3

(* C10: when link returns, every expected ADT some module declares names   *)
(* a supplied module that defines a datatype of that name with the same    *)
(* set of variant names and, for each variant, an equal list of field      *)
(* names.                                                                  *)
C10_ExpectedAdtsAgree ==
    \A i \in DOMAIN linked :
        linked[i].ok =>
            \A m \in DOMAIN modules : \A k \in DOMAIN modules[m].expected_adts :
                Agrees(modules, modules[m].expected_adts[k])

\* A link that returned for a list in which a module declares an expected
\* ADT.
C10_Witness ==
    /\ linked # <<>>
    /\ linked[1].ok
    /\ \E m \in DOMAIN modules : modules[m].expected_adts # <<>>

-----------------------------------------------------------------------------
(* Dependencies and intrinsics at link time *)

\* Every name in some dependencies list is Prelude or the name of a module
\* of the list.
DepsClosed(ms) ==
    \A i \in DOMAIN ms : \A d \in Range(ms[i].dependencies) :
        d = <<"Prelude">> \/ \E j \in DOMAIN ms : ms[j].name = d

\* The same modules with their dependencies lists emptied.
WithoutDependencies(ms) == [i \in DOMAIN ms |-> [ms[i] EXCEPT !.dependencies = <<>>]]

\* link returns for the modules when no dependency is asked for.
LinksButForDependencies(ms) ==
    \E adt_iter \in AdtIterOrders(ms) : Link(WithoutDependencies(ms), adt_iter).ok

(* C11: dependency closure.  A link aborts over the dependencies if and    *)
(* only if some listed dependency is neither a supplied module nor         *)
(* Prelude: it returns exactly when the dependencies are closed and the    *)
(* same modules link with their dependencies lists emptied.                *)
C11_DependencyClosure ==
    \A i \in DOMAIN linked :
        linked[i].ok <=> (DepsClosed(modules) /\ LinksButForDependencies(modules))

\* The eleven names the specification lists as Prelude callables.
ElevenIntrinsics == {"print", "+", "-", "*", "/", ">", "<", ">=", "<=", "==", "!="}

\* The names the Call arm of run_main has an arm for.
CallImplements == {"print"} \cup ArithmeticOps \cup BooleanOps

(* C12: closed intrinsic set.  LoadName(Prelude, f) links to               *)
(* LoadIntrinsic(f) for each of the eleven names and aborts the link for   *)
(* every other name; the names the linker accepts are the names the        *)
(* interpreter's Call implements.                                          *)
C12_ClosedIntrinsicSet ==
    \A i \in DOMAIN linked : \A fun \in DrawnPreludeNames :
        modules = <<IntrinsicUser(fun)>> =>
            /\ linked[i].ok <=> fun \in ElevenIntrinsics
            /\ linked[i].ok <=> fun \in CallImplements
            /\ linked[i].ok => linked[i].functions = << <<Instr("LoadIntrinsic", 0, 0, fun)>> >>

(* C22: duplicate module names are rejected.  A link that returns was      *)
(* given modules with pairwise different names, and in its Context a       *)
(* module name designates exactly one ModuleIndex.                         *)
C22_DuplicateNamesRejected ==
    \A i \in DOMAIN linked :
        linked[i].ok =>
            /\ \A j, k \in DOMAIN modules :
                  modules[j].name = modules[k].name => j = k
            /\ \A j, k \in DOMAIN linked[i].context.module_names :
                  linked[i].context.module_names[j] = linked[i].context.module_names[k]
                     => j = k

-----------------------------------------------------------------------------
(* Vocabulary of the instruction claims *)

\* The arm for op was the last the match took, in the state last holds.
JustRan(op) == last.frames # <<>> /\ last.instr.op = op

\* The frame that arm ran in, as it was when the arm was entered.
LastFrame == last.frames[Len(last.frames)]

\* The value the top of that frame's operand stack designated.
LastTopValue == RawAt(last.gc, Top(LastFrame.stack))

\* The arm had a pointer into the arena on top of the operand stack.
LastHadTop == LastFrame.stack # <<>> /\ InBounds(last.gc, Top(LastFrame.stack))

\* The arm returned without a panic and left the frame stack's height alone:
\* CurFrame is LastFrame one instruction later.
SameFrameAfter == status = "running" /\ Len(frames) = Len(last.frames)

(* C13: Unless falsity predicate.  Unless(t) on a value v pops v; it sets  *)
(* ip to t when v is Int(0) and advances ip by exactly 1 for every other   *)
(* value (non-zero Int, Str, ModuleFnRef, Intrinsic, Variant).             *)
C13_UnlessBranchesOnZero ==
    (JustRan("Unless") /\ LastHadTop) =>
        /\ SameFrameAfter
        /\ CurFrame.stack = Pop(LastFrame.stack)
        /\ CurFrame.ip = IF LastTopValue = IntVal(0) THEN last.instr.a
                         ELSE LastFrame.ip + 1

\* Unless fell through on a value that is not an Int, past a branch target
\* that is not the next instruction.
C13_Witness ==
    /\ JustRan("Unless")
    /\ LastHadTop
    /\ LastTopValue.tag \notin {"IntVal"}
    /\ last.instr.a # LastFrame.ip + 1
    /\ CurFrame.ip = LastFrame.ip + 1

\* The frames of fs and gs at the same height, where both have one.
SharedFrames(fs, gs) == DOMAIN fs \cap DOMAIN gs

\* No frame of fs that is still on the stack gs has fewer locals in gs.
LocalsNotShorter(fs, gs) ==
    \A i \in SharedFrames(fs, gs) : Len(gs[i].locals) >= Len(fs[i].locals)

(* C14: local write monotonicity.  StoreLocal(k) completes only with       *)
(* k <= len(locals): with k = len it appends the popped pointer, with      *)
(* k < len it overwrites slot k and leaves the length and the other slots  *)
(* alone, with k > len the VM aborts.  Locals hold no gap, and no arm of   *)
(* the match and no compaction shortens the locals of a frame that stays   *)
(* on the frame stack.                                                     *)
C14_LocalsWrittenInOrder ==
    /\ (JustRan("StoreLocal") /\ LastFrame.stack # <<>>) =>
          LET k == last.instr.a
              old == LastFrame.locals
              ptr == Top(LastFrame.stack)
          IN  IF k > Len(old) THEN status = "panic"
              ELSE /\ SameFrameAfter
                   /\ CurFrame.stack = Pop(LastFrame.stack)
                   /\ CurFrame.locals = IF k = Len(old) THEN Append(old, ptr)
                                        ELSE [old EXCEPT ![k + 1] = ptr]
    /\ \A i \in DOMAIN frames : \A j \in DOMAIN frames[i].locals :
          frames[i].locals[j] # None
    /\ status # "panic" => LocalsNotShorter(last.frames, frames)
    /\ AtCompaction => LocalsNotShorter(before.frames, frames)

\* StoreLocal overwrote slot 0 of a frame with two locals.
C14_Witness ==
    /\ JustRan("StoreLocal")
    /\ SameFrameAfter
    /\ last.instr.a = 0
    /\ Len(LastFrame.locals) = 2
    /\ Len(CurFrame.locals) = 2
    /\ CurFrame.locals[1] = Top(LastFrame.stack)
    /\ CurFrame.locals[1] # LastFrame.locals[1]
    /\ CurFrame.locals[2] = LastFrame.locals[2]

\* seq without its j-th item.
RemoveAt(seq, j) == SubSeq(seq, 1, j - 1) \o SubSeq(seq, j + 1, Len(seq))

\* Frame now is frame was with the one pointer o added to its operand stack
\* and nothing else changed.
GainedOne(was, now, o) ==
    /\ [now EXCEPT !.stack = was.stack] = was
    /\ \E j \in DOMAIN now.stack :
          now.stack[j] = o /\ RemoveAt(now.stack, j) = was.stack

\* The frames under the one the last arm ran in.
LastCallers == Pop(last.frames)

(* C15: stack balance at return.  The frame whose ip is past its           *)
(* function's last instruction is popped.  With a caller left, a callee    *)
(* stack of zero values transfers nothing, of exactly one value transfers  *)
(* that pointer to the caller, of more than one aborts; with no frame      *)
(* left the run ends cleanly when the popped frame's stack is empty and    *)
(* aborts otherwise.  No return moves more than one value.                 *)
C15_ReturnMovesAtMostOne ==
    JustRan("None") =>
        IF LastCallers = <<>>
        THEN IF LastFrame.stack = <<>> THEN status # "panic" /\ frames = <<>>
             ELSE status = "panic"
        ELSE CASE Len(LastFrame.stack) = 0 ->
                    status = "running" /\ frames = LastCallers
               [] Len(LastFrame.stack) = 1 ->
                    /\ status = "running"
                    /\ Len(frames) = Len(LastCallers)
                    /\ Pop(frames) = Pop(LastCallers)
                    /\ GainedOne(Top(LastCallers), CurFrame, LastFrame.stack[1])
               [] OTHER -> status = "panic"

\* A callee returned its one value to a caller that had a value of its own
\* on its operand stack.
C15_Witness ==
    /\ JustRan("None")
    /\ LastCallers # <<>>
    /\ Len(LastFrame.stack) = 1
    /\ Top(LastCallers).stack # <<>>
    /\ status = "running"
    /\ Len(CurFrame.stack) = Len(Top(LastCallers).stack) + 1

\* The last arm was Call(argc) on a ModuleFnRef with argc arguments under it.
CalledFunction ==
    /\ JustRan("Call")
    /\ LastHadTop
    /\ LastTopValue.tag = "ModuleFnRef"
    /\ Len(LastFrame.stack) >= last.instr.a + 1

\* The arguments of that call in the order they were pushed.
ArgumentsAsPushed ==
    SubSeq(LastFrame.stack, Len(LastFrame.stack) - last.instr.a, Len(LastFrame.stack) - 1)

(* C16: call argument order.  When Call(argc) pops a ModuleFnRef callee,   *)
(* the new frame's locals have length argc and local i holds the i-th      *)
(* argument in push order, the caller's operand stack loses exactly        *)
(* argc + 1 entries, and the new frame starts with ip 0, empty registers   *)
(* and an empty operand stack.                                             *)
C16_CallArgumentsInPushOrder ==
    CalledFunction =>
        /\ status = "running"
        /\ Len(frames) = Len(last.frames) + 1
        /\ CurFrame = [NewFrame(LastTopValue.num) EXCEPT !.locals = ArgumentsAsPushed]
        /\ Len(CurFrame.locals) = last.instr.a
        /\ CurFrame.ip = 0
        /\ CurFrame.registers = <<>>
        /\ CurFrame.stack = <<>>
        /\ Pop(Pop(frames)) = LastCallers
        /\ Top(Pop(frames)) =
              [LastFrame EXCEPT !.ip = @ + 1,
                                !.stack = SubSeq(@, 1, Len(@) - last.instr.a - 1)]

\* A call with two arguments that are different pointers, made from a frame
\* that keeps a value on its operand stack.
C16_Witness ==
    /\ CalledFunction
    /\ last.instr.a = 2
    /\ status = "running"
    /\ Len(CurFrame.locals) = 2
    /\ CurFrame.locals[1] # CurFrame.locals[2]
    /\ Top(Pop(frames)).stack # <<>>

\* The last arm was Instantiate(C) with a pointer for each field of C on the
\* operand stack.
Instantiated ==
    /\ JustRan("Instantiate")
    /\ last.instr.a < Len(context.constructor_fields)
    /\ Len(LastFrame.stack) >= CtorFieldsNbr(context, last.instr.a)

\* The last N pointers of that stack in the order they were pushed.
FieldsAsPushed ==
    SubSeq(LastFrame.stack,
           Len(LastFrame.stack) + 1 - CtorFieldsNbr(context, last.instr.a),
           Len(LastFrame.stack))

(* C17: Instantiate/Field round trip.  After pushing p_0..p_{N-1} in that  *)
(* order, Instantiate(C) leaves a Variant of constructor C whose field i   *)
(* is p_i (last pushed = last field), the operand stack has lost N entries *)
(* and gained one, and Field(C, i) on a Variant of C pushes its field i.   *)
C17_InstantiateKeepsPushOrder ==
    /\ Instantiated =>
          /\ SameFrameAfter
          /\ Len(CurFrame.stack) =
                Len(LastFrame.stack) - CtorFieldsNbr(context, last.instr.a) + 1
          /\ InBounds(gc, Top(CurFrame.stack))
          /\ RawAt(gc, Top(CurFrame.stack)) = VariantVal(last.instr.a, FieldsAsPushed)
    /\ ( /\ JustRan("Field")
         /\ LastHadTop
         /\ LastTopValue.tag = "VariantVal"
         /\ LastTopValue.num = last.instr.a
         /\ last.instr.b < Len(LastTopValue.ptrs) ) =>
          /\ SameFrameAfter
          /\ CurFrame.stack = Append(Pop(LastFrame.stack), LastTopValue.ptrs[last.instr.b + 1])

(* C20: compaction trigger.  A compaction happens after every 500          *)
(* dispatched instructions and at no other time: when the n-th compaction  *)
(* of a run has just run, exactly n * 500 opcodes have been executed,      *)
(* frame returns not counted.                                              *)
C20_CompactionEvery500Instructions ==
    AtCompaction => executed = passes * CompactInterval

(* C23: return value placement.  When a callee frame is exhausted with     *)
(* exactly one pointer on its operand stack and a caller remains, the      *)
(* pointer becomes the caller's top-of-stack entry and the entries the     *)
(* caller's stack held keep their positions below it.                      *)
C23_ReturnValueOnTop ==
    (JustRan("None") /\ LastCallers # <<>> /\ Len(LastFrame.stack) = 1) =>
        /\ status = "running"
        /\ CurFrame.stack = Append(Top(LastCallers).stack, LastFrame.stack[1])

\* The arm the match took last appended a cell to the heap.
Allocated == last.frames # <<>> /\ Len(gc) > Len(last.gc)

(* C25: the heap is append-only between compactions.  Every arm of the     *)
(* match leaves the cells the heap had as they were and appends at most    *)
(* one; an opcode that allocates obtains as pointer the heap's previous    *)
(* length (the pointer it pushes).  So between two compactions the heap's  *)
(* length never decreases and heap[p] is unchanged for every allocated p.  *)
C25_HeapAppendOnly ==
    last.frames # <<>> =>
        /\ Len(gc) >= Len(last.gc)
        /\ Len(gc) <= Len(last.gc) + 1
        /\ SubSeq(gc, 1, Len(last.gc)) = last.gc
        /\ Allocated =>
              /\ status = "running"
              /\ Len(frames) = Len(last.frames)
              /\ Top(CurFrame.stack) = Len(last.gc)

\* An opcode has allocated a cell on a heap that held two already and
\* pushed the pointer to it.
C25_Witness ==
    /\ Allocated
    /\ Len(last.gc) = 2
    /\ gc[3] \notin Range(last.gc)
    /\ Top(CurFrame.stack) = 2

\* The last arm returned with the top of the operand stack replaced by a
\* freshly allocated Int(n) and the ip advanced by 1.
ReplacedTopByNewInt(n) ==
    /\ SameFrameAfter
    /\ gc = Append(last.gc, IntVal(n))
    /\ CurFrame = [LastFrame EXCEPT !.ip = @ + 1,
                                    !.stack = Append(Pop(@), Len(last.gc))]

(* C26: IsVariant(C) pops one value; on a Variant it pushes a freshly      *)
(* allocated Int(1) when the Variant's constructor index equals C and      *)
(* Int(0) when it is a Variant of another constructor, and advances ip by  *)
(* 1; on a value that is not a Variant the VM aborts and pushes nothing.   *)
C26_IsVariantComparesConstructors ==
    (JustRan("IsVariant") /\ LastHadTop) =>
        IF LastTopValue.tag = "VariantVal"
        THEN ReplacedTopByNewInt(IF LastTopValue.num = last.instr.a THEN 1 ELSE 0)
        ELSE status = "panic" /\ frames = last.frames /\ gc = last.gc

\* IsVariant on a Variant of another constructor has pushed Int(0).
C26_Witness ==
    /\ JustRan("IsVariant")
    /\ LastHadTop
    /\ LastTopValue.tag = "VariantVal"
    /\ LastTopValue.num # last.instr.a
    /\ ReplacedTopByNewInt(0)

\* The last arm loaded a local or a register that holds no pointer.
LoadedUnwritten ==
    \/ /\ last.instr.op = "LoadLocal"
       /\ last.instr.a >= Len(LastFrame.locals)
    \/ /\ last.instr.op = "LoadReg"
       /\ \/ last.instr.a >= Len(LastFrame.registers)
          \/ LastFrame.registers[last.instr.a + 1] = None

\* The last arm was Field on a value that is not a Variant or is a Variant
\* of another constructor than the operand's.
FieldOfWrongValue ==
    /\ last.instr.op = "Field"
    /\ LastHadTop
    /\ LastTopValue.tag # "VariantVal" \/ LastTopValue.num # last.instr.a

\* The last arm popped from an operand stack that was empty: at its first
\* pop, or after it had popped the entries there were.
PoppedFromEmpty ==
    \/ /\ last.instr.op \in {"StoreLocal", "StoreReg", "Unless", "Call", "IsVariant", "Field"}
       /\ LastFrame.stack = <<>>
    \/ /\ last.instr.op = "Instantiate"
       /\ last.instr.a < Len(context.constructor_fields)
       /\ Len(LastFrame.stack) < CtorFieldsNbr(context, last.instr.a)
    \/ /\ last.instr.op = "Call"
       /\ LastHadTop
       /\ \/ LastTopValue.tag = "ModuleFnRef"
          \/ LastTopValue.tag = "Intrinsic" /\ LastTopValue.str \in {"print"} \cup ArithmeticOps
       /\ Len(Pop(LastFrame.stack)) < last.instr.a

RuntimeError == last.frames # <<>> /\ (LoadedUnwritten \/ FieldOfWrongValue \/ PoppedFromEmpty)

\* The error state: the run has ended in a panic, with the frames the
\* failing arm found.
FatalError == status = "panic" /\ frames = last.frames

(* C27: runtime type errors are fatal.  LoadLocal of an index >=           *)
(* len(locals), LoadReg of a slot never written or empty, Field on a       *)
(* non-Variant or on a Variant of another constructor, and a pop from an   *)
(* empty operand stack each put the VM in an error state; from an error    *)
(* state no step is taken: no instruction is dispatched, no frame pushed   *)
(* or popped, and clean termination is never reported.                     *)
C27_RuntimeErrorsAreFatal ==
    /\ [](RuntimeError => FatalError)
    /\ [][status # "panic"]_vars

\* A Field on a Variant of another constructor has ended the run.
C27_Witness ==
    /\ RuntimeError
    /\ FieldOfWrongValue
    /\ LastTopValue.tag = "VariantVal"
    /\ FatalError

-----------------------------------------------------------------------------
(* Call on a drawn callee: the frame of a one-instruction function         *)
(* Call(argc) with drawn operands and, on top of them, an intrinsic the    *)
(* Call arm of run_main knows, a reference to the function itself, or a    *)
(* value that is not callable.                                             *)

\* The largest argc and the largest number of operands drawn.
MaxArgs == 3

\* The values an operand is drawn from.
DrawnOperands == { IntVal(i) : i \in {-3, 0, 1, 2, 3} } \cup {StrVal("s")}

DrawnOperandLists == UNION { [1 .. n -> DrawnOperands] : n \in 0 .. MaxArgs }

InitCall ==
    /\ \E callee \in { Intrinsic(name) : name \in CallImplements } \cup
                      { ModuleFnRef(0), IntVal(1), StrVal("s"), VariantVal(0, <<>>),
                        LambdaVal(0, <<>>) } :
       \E argc \in 0 .. MaxArgs : \E operands \in DrawnOperandLists :
         /\ gc = Append(operands, callee)
         /\ frames = <<[NewFrame(0) EXCEPT !.stack = [i \in 1 .. Len(operands) + 1 |-> i - 1]]>>
         /\ program = << <<Instr("Call", argc, 0, "")>> >>
    /\ context = EmptyContext
    /\ status = "running"
    /\ num_frames = 0
    /\ pc = "head"
    /\ stdout = <<>>
    /\ passes = 0
    /\ before = NoSnapshot
    /\ modules = <<>>
    /\ linked = <<>>
    /\ executed = 0
    /\ last = NoDispatch

NextCall == LoopHead \/ Call \/ Return \/ ProgramDone

SpecCall == InitCall /\ [][NextCall]_vars

-----------------------------------------------------------------------------
(* Vocabulary of the intrinsic claims *)

\* The last arm was Call(argc) on the intrinsic name with at least argc
\* operands under it.
CalledIntrinsic(names) ==
    /\ JustRan("Call")
    /\ LastHadTop
    /\ LastTopValue.tag = "Intrinsic"
    /\ LastTopValue.str \in names
    /\ Len(LastFrame.stack) >= last.instr.a + 1

\* The operand stack that call found under the callee.
LastOperands == Pop(LastFrame.stack)

\* The values of the argc arguments, the one pushed last first.
ArgumentsAsPopped ==
    [i \in 1 .. last.instr.a |-> RawAt(last.gc, LastOperands[Len(LastOperands) + 1 - i])]

\* ((v_1 op v_2) op ...) op v_n from the accumulator acc on.
RECURSIVE FoldLeft(_, _, _)
FoldLeft(op, acc, vals) ==
    IF vals = <<>> THEN acc
    ELSE FoldLeft(op, ApplyArith(op, acc, Head(vals).num), Tail(vals))

\* A division of the fold has the divisor zero.
DividesByZero ==
    LastTopValue.str = "/" /\ \E i \in 2 .. last.instr.a : ArgumentsAsPopped[i] = IntVal(0)

\* The call returned, with the argc operands replaced by a new cell that
\* holds Int(result).
PushedNewInt(result) ==
    /\ SameFrameAfter
    /\ gc = Append(last.gc, IntVal(result))
    /\ CurFrame = [LastFrame EXCEPT !.ip = @ + 1,
                     !.stack = Append(Drop(LastOperands, last.instr.a), Len(last.gc))]

C21_CallDispatchesOnCallee ==
    (JustRan("Call") /\ LastHadTop) =>
        CASE LastTopValue.tag = "Intrinsic" ->
                /\ Len(frames) = Len(last.frames)
                /\ Pop(frames) = LastCallers
                /\ status = "running" =>
                      /\ CurFrame.ip = LastFrame.ip + 1
                      /\ CurFrame.fn_idx = LastFrame.fn_idx
          [] LastTopValue.tag = "ModuleFnRef" ->
                IF Len(LastFrame.stack) >= last.instr.a + 1
                THEN /\ status = "running"
                     /\ Len(frames) = Len(last.frames) + 1
                     /\ CurFrame.fn_idx = LastTopValue.num
                     /\ Pop(Pop(frames)) = LastCallers
                     /\ Top(Pop(frames)).ip = LastFrame.ip + 1
                     /\ Top(Pop(frames)).fn_idx = LastFrame.fn_idx
                ELSE status = "panic" /\ frames = last.frames
          [] OTHER -> status = "panic" /\ frames = last.frames

\* Call on a Variant has aborted with the frame stack as it was.
C21_Witness ==
    /\ JustRan("Call")
    /\ LastHadTop
    /\ LastTopValue.tag = "VariantVal"
    /\ status = "panic"
    /\ frames = last.frames

(* C24: stack effect of intrinsic calls.  For every argc >= 0, a Call(argc) *)
(* on an arithmetic intrinsic that completes has removed exactly the argc  *)
(* argument pointers under the callee and pushed exactly one result, and   *)
(* one on print has removed exactly argc pointers and pushed nothing: the  *)
(* entries below the argc arguments are neither popped nor changed.        *)
C24_IntrinsicTakesArgcOperands ==
    (CalledIntrinsic(ArithmeticOps \cup {"print"}) /\ status = "running") =>
        IF LastTopValue.str = "print"
        THEN CurFrame.stack = Drop(LastOperands, last.instr.a)
        ELSE /\ CurFrame.stack # <<>>
             /\ Pop(CurFrame.stack) = Drop(LastOperands, last.instr.a)

=============================================================================
